---- MODULE Spec2Model ----
(***************************************************************************)
(* Chess-Tutor: the puzzle session (ChessPuzzle) on top of the chess       *)
(* engine (Chess), with the deferred opponent replies that                 *)
(* QTimer::singleShot schedules on the event loop.                         *)
(*                                                                         *)
(* C++ strings are sequences of character codes, squares are records       *)
(* [row, col], the board is board[row][col] as in the source.              *)
(***************************************************************************)
EXTENDS Integers, Sequences, FiniteSets, TLC

VARIABLES
  rec,            \* index of the CSV record the session was built from, 0 before construction
  board,          \* Chess::board
  currentPlayer,  \* Chess::currentPlayer
  solutionMoves,  \* ChessPuzzle::solutionMoves
  currentStep,    \* ChessPuzzle::currentStep
  puzzleElo,      \* ChessPuzzle::puzzleElo
  usedHint,       \* ChessPuzzle::usedHint
  pendingReplies, \* makeOpponentMove single-shot timers scheduled and not yet fired
  crashed,        \* the process ended abnormally (uncaught throw, wild memory access)
  events,         \* the signals emitted by the last call, in emission order
  lastCall,       \* the last call made on the session: operation, arguments, result, cursor before
  applied,        \* history: the (from, to) pairs moved on the board, in order
  beatCount,      \* history: number of beatPuzzle signals emitted so far
  window          \* MainWindow: its two object pointers, its buttons and its single-shot timers

vars == << rec, board, currentPlayer, solutionMoves, currentStep, puzzleElo, usedHint,
           pendingReplies, crashed, events, lastCall, applied, beatCount, window >>

----------------------------------------------------------------------------
(* Bounds of the model *)

\* squares the user may click besides the squares named in the record's move list
MaxExtraClicks == 1
\* number of distinct in-range squares an out-of-bounds read of solutionMoves may yield
MaxGarbage == 2

----------------------------------------------------------------------------
(* chess.h: Piece and Player *)

PAWN   == 1
ROOK   == 2
KNIGHT == 3
BISHOP == 4
QUEEN  == 5
KING   == 6

WHITE == 1
BLACK == -1

abs(x) == IF x < 0 THEN -x ELSE x

Square(row, col) == [row |-> row, col |-> col]
NoSquare == [row |-> -1, col |-> -1]

EmptyBoard == [r \in 0..7 |-> [c \in 0..7 |-> 0]]

SquareFromStringRanksFromOne(square) ==
  IF Len(square) # 2 THEN [ok |-> FALSE, row |-> -1, col |-> -1]
  ELSE LET let == IF square[1] >= 65 /\ square[1] <= 90 THEN square[1] + 32 ELSE square[1]
           num == square[2] - 48
       IN  IF let < 97 \/ let > 104 THEN [ok |-> FALSE, row |-> -1, col |-> -1]
           ELSE IF num < 1 \/ num > 8 THEN [ok |-> FALSE, row |-> -1, col |-> -1]
           ELSE [ok |-> TRUE, row |-> 8 - num, col |-> let - 97]

\* Square::Square(std::string): ok = FALSE where the constructor throws
SquareFromString(square) ==
  IF Len(square) # 2 THEN [ok |-> FALSE, row |-> -1, col |-> -1]
  ELSE LET let == IF square[1] >= 65 /\ square[1] <= 90 THEN square[1] + 32 ELSE square[1]
           num == square[2] - 48
       IN  IF let < 97 \/ let > 104 THEN [ok |-> FALSE, row |-> -1, col |-> -1]
           ELSE IF num < 0 \/ num > 8 THEN [ok |-> FALSE, row |-> -1, col |-> -1]
           ELSE [ok |-> TRUE, row |-> 8 - num, col |-> let - 97]

\* Chess::switchPlayer: the new currentPlayer
switchPlayer(p) == IF p = BLACK THEN WHITE ELSE BLACK

Ev(name, args) == [name |-> name, args |-> args]

\* Chess::movePieceUnconditionally: the board after the call
movePieceUnconditionallyKeepOrigin(b, old, target) ==
  [b EXCEPT ![target.row][target.col] = b[old.row][old.col]]
movePieceUnconditionallyBoard(b, old, target) ==
  LET b1 == [b EXCEPT ![target.row][target.col] = b[old.row][old.col]]
  IN  [b1 EXCEPT ![old.row][old.col] = 0]

movePieceUnconditionallyEventsEndAtWin(b, p, old, target) ==
  (IF b[target.row][target.col] # 0 /\ b[old.row][old.col] # 0
     THEN << Ev("capture_at", << 2 * target.col + 1, 16 - 2 * target.row - 1, 30 >>) >>
     ELSE << >>)
  \o << Ev("set_player", << switchPlayer(p) >>) >>
  \o (IF abs(b[target.row][target.col]) = 6
        THEN << Ev("won_game", << >>) >>
        ELSE << Ev("update_board", << >>) >>)

movePieceUnconditionallyEventsWonBeforeFlip(b, p, old, target) ==
  (IF b[target.row][target.col] # 0 /\ b[old.row][old.col] # 0
     THEN << Ev("capture_at", << 2 * target.col + 1, 16 - 2 * target.row - 1, 30 >>) >>
     ELSE << >>)
  \o (IF abs(b[target.row][target.col]) = 6 THEN << Ev("won_game", << >>) >> ELSE << >>)
  \o << Ev("set_player", << switchPlayer(p) >>) >>
  \o << Ev("update_board", << >>) >>

\* Chess::movePieceUnconditionally: the signals of the call, in order.
\* capture_at carries (col + 0.5, 8 - row - 0.5, 30), kept here doubled.
movePieceUnconditionallyEvents(b, p, old, target) ==
  LET isKingTaken == abs(b[target.row][target.col]) = 6
  IN  (IF b[target.row][target.col] # 0 /\ b[old.row][old.col] # 0
         THEN << Ev("capture_at", << 2 * target.col + 1, 16 - 2 * target.row - 1, 30 >>) >>
         ELSE << >>)
      \o << Ev("set_player", << switchPlayer(p) >>) >>
      \o (IF isKingTaken THEN << Ev("won_game", << >>) >> ELSE << >>)
      \o << Ev("update_board", << >>) >>

----------------------------------------------------------------------------
(* chesspuzzle.cpp: parsing of the CSV record *)

\* std::getline(ss, item, delimiter) with the stream at position i: where the piece ends
nextDelimiter(s, delimiter, i) ==
  IF \E j \in i..Len(s) : s[j] = delimiter
    THEN CHOOSE j \in i..Len(s) : s[j] = delimiter /\ \A k \in i..(j - 1) : s[k] # delimiter
    ELSE Len(s) + 1

RECURSIVE splitFrom(_, _, _, _)
splitFrom(s, delimiter, i, tokens) ==
  IF i > Len(s) THEN tokens
  ELSE splitFrom(s, delimiter, nextDelimiter(s, delimiter, i) + 1,
                 Append(tokens, SubSeq(s, i, nextDelimiter(s, delimiter, i) - 1)))

\* ChessPuzzle::split: std::getline fails at the end of the text, so an empty
\* piece after the last delimiter is dropped
split(s, delimiter) == splitFrom(s, delimiter, 1, << >>)

\* std::string::substr(pos, n)
substr(s, pos, n) ==
  SubSeq(s, pos + 1, IF pos + n <= Len(s) THEN pos + n ELSE Len(s))

isdigit(c) == c >= 48 /\ c <= 57

RECURSIVE stoiFrom(_, _, _)
stoiFrom(s, i, acc) ==
  IF i > Len(s) \/ ~isdigit(s[i]) THEN acc
  ELSE stoiFrom(s, i + 1, 10 * acc + (s[i] - 48))

\* std::stoi on an unsigned decimal text: ok = FALSE where it throws
stoi(s) ==
  IF s = << >> \/ ~isdigit(s[1]) THEN [ok |-> FALSE, val |-> 0]
  ELSE [ok |-> TRUE, val |-> stoiFrom(s, 1, 0)]

\* ChessPuzzle::toPiece
toPiece(c) ==
  CASE c = 107 -> -KING
    [] c = 113 -> -QUEEN
    [] c = 110 -> -KNIGHT
    [] c = 98  -> -BISHOP
    [] c = 114 -> -ROOK
    [] c = 112 -> -PAWN
    [] c = 75  -> KING
    [] c = 81  -> QUEEN
    [] c = 78  -> KNIGHT
    [] c = 66  -> BISHOP
    [] c = 82  -> ROOK
    [] c = 80  -> PAWN
    [] OTHER   -> 0

\* ChessPuzzle::loadFEN, the body of the loop over the placement field: the
\* cursor and board after character c.  wild: board[row][col] was written with
\* the cursor outside the 8x8 array.
loadFENCharNoSkip(st, c) ==
  IF c = 47 THEN [row |-> st.row + 1, col |-> 0, board |-> st.board, wild |-> st.wild]
  ELSE IF isdigit(c)
    THEN [row |-> st.row, col |-> st.col + 1, board |-> st.board, wild |-> st.wild]
  ELSE IF st.row > 7 \/ st.col > 7
    THEN [row |-> st.row, col |-> st.col + 1, board |-> st.board, wild |-> TRUE]
  ELSE [row |-> st.row, col |-> st.col + 1,
        board |-> [st.board EXCEPT ![st.row][st.col] = toPiece(c)], wild |-> st.wild]
loadFENChar(st, c) ==
  IF c = 47 THEN [row |-> st.row + 1, col |-> 0, board |-> st.board, wild |-> st.wild]
  ELSE IF isdigit(c)
    THEN [row |-> st.row, col |-> st.col + (c - 48), board |-> st.board, wild |-> st.wild]
  ELSE IF st.row > 7 \/ st.col > 7
    THEN [row |-> st.row, col |-> st.col + 1, board |-> st.board, wild |-> TRUE]
  ELSE [row |-> st.row, col |-> st.col + 1,
        board |-> [st.board EXCEPT ![st.row][st.col] = toPiece(c)], wild |-> st.wild]

\* the loop of loadFEN from character i on; a wild write ends the model of the run
RECURSIVE loadFENLoop(_, _, _)
loadFENLoop(startingPositions, i, st) ==
  IF st.wild \/ i > Len(startingPositions) THEN st
  ELSE loadFENLoop(startingPositions, i + 1, loadFENChar(st, startingPositions[i]))

\* ChessPuzzle::loadFEN on the board b: the board and the side to move
loadFEN(FEN, b) ==
  LET parts == split(FEN, 32)
      startingPositions == parts[1]
      startingPlayer == parts[2]
      st == loadFENLoop(startingPositions, 1, [row |-> 0, col |-> 0, board |-> b, wild |-> FALSE])
  IN  [board |-> st.board,
       currentPlayer |-> IF startingPlayer = << 98 >> THEN BLACK ELSE WHITE,
       wild |-> st.wild]

\* the body of the loop of loadMoves on one token: the two Square constructors
moveOfToken(move) ==
  LET piece == SquareFromString(substr(move, 0, 2))
      location == SquareFromString(substr(move, 2, 2))
  IN  [ok |-> piece.ok /\ location.ok,
       move |-> << Square(piece.row, piece.col), Square(location.row, location.col) >>]

RECURSIVE loadMovesFrom(_, _, _)
loadMovesFrom(moves, i, acc) ==
  IF i > Len(moves) THEN [ok |-> TRUE, moves |-> acc]
  ELSE IF ~moveOfToken(moves[i]).ok THEN [ok |-> FALSE, moves |-> acc]
  ELSE loadMovesFrom(moves, i + 1, Append(acc, moveOfToken(moves[i]).move))

\* ChessPuzzle::loadMoves: the move list, ok = FALSE where a Square constructor throws
loadMoves(pgnMoves) == loadMovesFrom(split(pgnMoves, 32), 1, << >>)

\* the CSV lines the sessions are built from, as character codes
Records ==
  <<
  \* "1,6k1/8/8/8/8/8/8/R5K1 w - - 0 1,a1a8 g8h7,1500,80,90,1000,mate,u"
  << 49, 44, 54, 107, 49, 47, 56, 47, 56, 47, 56, 47, 56, 47, 56, 47, 56, 47, 82, 53, 75, 49, 32, 119, 32, 45, 32, 45, 32, 48, 32, 49, 44, 97, 49, 97, 56, 32, 103, 56, 104, 55, 44, 49, 53, 48, 48, 44, 56, 48, 44, 57, 48, 44, 49, 48, 48, 48, 44, 109, 97, 116, 101, 44, 117 >>,
  \* "2,6k1/5ppp/8/8/8/8/r4PPP/1R4K1 b - - 0 1,a2a1 b1a1 g8h8 a1a8,1200,75,90,500,endgame,u"
  << 50, 44, 54, 107, 49, 47, 53, 112, 112, 112, 47, 56, 47, 56, 47, 56, 47, 56, 47, 114, 52, 80, 80, 80, 47, 49, 82, 52, 75, 49, 32, 98, 32, 45, 32, 45, 32, 48, 32, 49, 44, 97, 50, 97, 49, 32, 98, 49, 97, 49, 32, 103, 56, 104, 56, 32, 97, 49, 97, 56, 44, 49, 50, 48, 48, 44, 55, 53, 44, 57, 48, 44, 53, 48, 48, 44, 101, 110, 100, 103, 97, 109, 101, 44, 117 >>,
  \* "3,k7/8/8/8/8/8/8/QK6 w - - 0 1,a1a7 a8a7 b1b2,1100,75,90,500,short,u"
  << 51, 44, 107, 55, 47, 56, 47, 56, 47, 56, 47, 56, 47, 56, 47, 56, 47, 81, 75, 54, 32, 119, 32, 45, 32, 45, 32, 48, 32, 49, 44, 97, 49, 97, 55, 32, 97, 56, 97, 55, 32, 98, 49, 98, 50, 44, 49, 49, 48, 48, 44, 55, 53, 44, 57, 48, 44, 53, 48, 48, 44, 115, 104, 111, 114, 116, 44, 117 >>,
  \* "4,rnbqkbnr/pppp1ppp/8/4p3/4P3/8/PPPP1PPP/RNBQKBNR w - - 0 1,g1f3 b8c6 f1b5 a7a6 b5c6,1800,75,90,500,opening,u"
  << 52, 44, 114, 110, 98, 113, 107, 98, 110, 114, 47, 112, 112, 112, 112, 49, 112, 112, 112, 47, 56, 47, 52, 112, 51, 47, 52, 80, 51, 47, 56, 47, 80, 80, 80, 80, 49, 80, 80, 80, 47, 82, 78, 66, 81, 75, 66, 78, 82, 32, 119, 32, 45, 32, 45, 32, 48, 32, 49, 44, 103, 49, 102, 51, 32, 98, 56, 99, 54, 32, 102, 49, 98, 53, 32, 97, 55, 97, 54, 32, 98, 53, 99, 54, 44, 49, 56, 48, 48, 44, 55, 53, 44, 57, 48, 44, 53, 48, 48, 44, 111, 112, 101, 110, 105, 110, 103, 44, 117 >>,
  \* "5,8/8/8/8/8/8/8/K6k w - - 0 1,a1a2 h1h2,900,80,90,100,mate"
  << 53, 44, 56, 47, 56, 47, 56, 47, 56, 47, 56, 47, 56, 47, 56, 47, 75, 54, 107, 32, 119, 32, 45, 32, 45, 32, 48, 32, 49, 44, 97, 49, 97, 50, 32, 104, 49, 104, 50, 44, 57, 48, 48, 44, 56, 48, 44, 57, 48, 44, 49, 48, 48, 44, 109, 97, 116, 101 >>,
  \* "6,8/8/8/8/8/8/8/K6k w - - 0 1,,900,80,90,100,mate,u"
  << 54, 44, 56, 47, 56, 47, 56, 47, 56, 47, 56, 47, 56, 47, 56, 47, 75, 54, 107, 32, 119, 32, 45, 32, 45, 32, 48, 32, 49, 44, 44, 57, 48, 48, 44, 56, 48, 44, 57, 48, 44, 49, 48, 48, 44, 109, 97, 116, 101, 44, 117 >>,
  \* "7,8/8/8/8/8/8/8/K6k b - - 0 1,h1h2 a1a2 a1a2 h2h3,900,80,90,100,mate,u"
  << 55, 44, 56, 47, 56, 47, 56, 47, 56, 47, 56, 47, 56, 47, 56, 47, 75, 54, 107, 32, 98, 32, 45, 32, 45, 32, 48, 32, 49, 44, 104, 49, 104, 50, 32, 97, 49, 97, 50, 32, 97, 49, 97, 50, 32, 104, 50, 104, 51, 44, 57, 48, 48, 44, 56, 48, 44, 57, 48, 44, 49, 48, 48, 44, 109, 97, 116, 101, 44, 117 >>
  >>

----------------------------------------------------------------------------
(* chesspuzzle.cpp: the session *)

\* ChessPuzzle::isSolved
isSolved == currentStep >= Len(solutionMoves)

\* makeGuess: auto [expFrom, expTo] = solutionMoves[currentStep]
expectedMoveStale(moves, step) == IF step > 1 THEN moves[step] ELSE moves[step + 1]
expectedMove(moves, step) == moves[step + 1]

\* ChessPuzzle::peekNextMove
peekNextMove == solutionMoves[currentStep + 1]

\* makeGuess: from == expFrom && to == expTo
isCorrectGuessFromOnly(from, to, exp) == from = exp[1]
isCorrectGuess(from, to, exp) == from = exp[1] /\ to = exp[2]

\* makeGuess: currentStep == solutionMoves.size(), after the increment
beatsPuzzleEarly(step, moves) == step >= Len(moves) - 1
beatsPuzzle(step, moves) == step = Len(moves)

\* what a read of solutionMoves[i] with i >= size() can yield when the process survives it
GarbageSquares == { Square(k % 8, (3 * k) % 8) : k \in 0..(MaxGarbage - 1) }

Outcome(b, p, step, evs, moved, crash) ==
  [board |-> b, currentPlayer |-> p, currentStep |-> step, events |-> evs,
   moved |-> moved, crashed |-> crash]

\* ChessPuzzle::makeOpponentMove on (b, p, moves, step): the possible outcomes.
\* With step >= size() the read of solutionMoves[currentStep] is out of bounds:
\* the process dies, or the read yields arbitrary squares that are then moved.
makeOpponentMoveOutcomes(b, p, moves, step) ==
  IF step < Len(moves)
    THEN LET piece == moves[step + 1][1]
             move == moves[step + 1][2]
         IN  { Outcome(movePieceUnconditionallyBoard(b, piece, move), switchPlayer(p), step + 1,
                       movePieceUnconditionallyEvents(b, p, piece, move),
                       << << piece, move >> >>, FALSE) }
    ELSE { Outcome(b, p, step, << >>, << >>, TRUE) }
         \cup { Outcome(movePieceUnconditionallyBoard(b, piece, move), switchPlayer(p), step + 1,
                        movePieceUnconditionallyEvents(b, p, piece, move),
                        << << piece, move >> >>, FALSE)
                : piece \in GarbageSquares, move \in GarbageSquares }

Call(op, from, to, ret, step) ==
  [op |-> op, from |-> from, to |-> to, ret |-> ret, step |-> step]

RecordIds == 1..Len(Records)

tooFewPartsAsValidator(parts) == Len(parts) < 8

\* the constructor's field count test, if (parts.size() < 9) return;
tooFewParts(parts) == Len(parts) < 9

\* ChessPuzzle::ChessPuzzle(const std::string& PGN), as MainWindow::makeNewPuzzle calls it
ChessPuzzleCtor(r) ==
  /\ rec = 0
  /\ ~crashed
  /\ rec' = r
  /\ lastCall' = Call("ChessPuzzle", NoSquare, NoSquare, TRUE, currentStep)
  /\ LET parts == split(Records[r], 44)
     IN  IF tooFewParts(parts)
           THEN /\ events' = << >>
                /\ UNCHANGED << board, currentPlayer, solutionMoves, currentStep, puzzleElo,
                                usedHint, pendingReplies, crashed, applied, beatCount >>
           ELSE LET elo == stoi(parts[4])
                    fen == loadFEN(parts[2], board)
                    lm == loadMoves(parts[3])
                IN  IF ~elo.ok \/ fen.wild \/ ~lm.ok
                      THEN /\ crashed' = TRUE
                           /\ events' = << >>
                           /\ UNCHANGED << board, currentPlayer, solutionMoves, currentStep,
                                           puzzleElo, usedHint, pendingReplies, applied,
                                           beatCount >>
                      ELSE \E o \in makeOpponentMoveOutcomes(fen.board, fen.currentPlayer,
                                                             lm.moves, currentStep) :
                             /\ puzzleElo' = elo.val
                             /\ solutionMoves' = lm.moves
                             /\ board' = o.board
                             /\ currentPlayer' = o.currentPlayer
                             /\ currentStep' = o.currentStep
                             /\ crashed' = o.crashed
                             /\ applied' = applied \o o.moved
                             /\ events' = IF o.crashed THEN << >>
                                          ELSE o.events \o << Ev("set_player", << o.currentPlayer >>) >>
                             /\ UNCHANGED << usedHint, pendingReplies, beatCount >>

\* ChessPuzzle::makeGuess
makeGuess(from, to) ==
  /\ rec # 0
  /\ ~crashed
  /\ UNCHANGED << rec, solutionMoves, puzzleElo, usedHint, crashed >>
  /\ IF currentStep >= Len(solutionMoves)
       THEN /\ lastCall' = Call("makeGuess", from, to, FALSE, currentStep)
            /\ events' = << >>
            /\ UNCHANGED << board, currentPlayer, currentStep, pendingReplies, applied, beatCount >>
       ELSE IF isCorrectGuess(from, to, expectedMove(solutionMoves, currentStep))
         THEN /\ lastCall' = Call("makeGuess", from, to, TRUE, currentStep)
              /\ board' = movePieceUnconditionallyBoard(board, from, to)
              /\ currentPlayer' = switchPlayer(currentPlayer)
              /\ currentStep' = currentStep + 1
              /\ applied' = Append(applied, << from, to >>)
              /\ IF beatsPuzzle(currentStep + 1, solutionMoves)
                   THEN /\ events' = movePieceUnconditionallyEvents(board, currentPlayer, from, to)
                                       \o << Ev("beatPuzzle", << >>) >>
                        /\ beatCount' = beatCount + 1
                        /\ UNCHANGED pendingReplies
                   ELSE /\ events' = movePieceUnconditionallyEvents(board, currentPlayer, from, to)
                        /\ pendingReplies' = pendingReplies + 1
                        /\ UNCHANGED beatCount
         ELSE /\ lastCall' = Call("makeGuess", from, to, FALSE, currentStep)
              /\ events' = << >>
              /\ UNCHANGED << board, currentPlayer, currentStep, pendingReplies, applied, beatCount >>

\* ChessPuzzle::makeOpponentMove run by the timer that makeGuess started
makeOpponentMove ==
  /\ rec # 0
  /\ ~crashed
  /\ pendingReplies > 0
  /\ pendingReplies' = pendingReplies - 1
  /\ lastCall' = Call("makeOpponentMove", NoSquare, NoSquare, TRUE, currentStep)
  /\ \E o \in makeOpponentMoveOutcomes(board, currentPlayer, solutionMoves, currentStep) :
       /\ board' = o.board
       /\ currentPlayer' = o.currentPlayer
       /\ currentStep' = o.currentStep
       /\ crashed' = o.crashed
       /\ events' = o.events
       /\ applied' = applied \o o.moved
  /\ UNCHANGED << rec, solutionMoves, puzzleElo, usedHint, beatCount >>

\* a QTimer::singleShot(1000, this, &ChessPuzzle::makeOpponentMove) of makeGuess expires
OpponentReply ==
  /\ UNCHANGED window
  /\ makeOpponentMove

\* ChessPuzzle::requestHint
requestHintAdvancing ==
  /\ UNCHANGED window
  /\ rec # 0
  /\ ~crashed
  /\ usedHint' = TRUE
  /\ lastCall' = Call("requestHint", NoSquare, NoSquare, TRUE, currentStep)
  /\ events' = << >>
  /\ currentStep' = IF currentStep < Len(solutionMoves) THEN currentStep + 1 ELSE currentStep
  /\ UNCHANGED << rec, board, currentPlayer, solutionMoves, puzzleElo,
                  pendingReplies, crashed, applied, beatCount >>
requestHint ==
  /\ UNCHANGED window
  /\ rec # 0
  /\ ~crashed
  /\ usedHint' = TRUE
  /\ lastCall' = Call("requestHint", NoSquare, NoSquare, TRUE, currentStep)
  /\ events' = IF currentStep < Len(solutionMoves)
                 THEN LET mv == solutionMoves[currentStep + 1]
                      IN  << Ev("hintAvailable", << mv[1].row, mv[1].col >>) >>
                 ELSE << >>
  /\ UNCHANGED << rec, board, currentPlayer, solutionMoves, currentStep, puzzleElo,
                  pendingReplies, crashed, applied, beatCount >>

\* ChessPuzzle::requestHintMove
requestHintMove ==
  /\ UNCHANGED window
  /\ rec # 0
  /\ ~crashed
  /\ usedHint' = TRUE
  /\ lastCall' = Call("requestHintMove", NoSquare, NoSquare, TRUE, currentStep)
  /\ events' = IF currentStep < Len(solutionMoves)
                 THEN LET mv == solutionMoves[currentStep + 1]
                      IN  << Ev("hintMoveAvailable",
                                << mv[1].row, mv[1].col, mv[2].row, mv[2].col >>) >>
                 ELSE << >>
  /\ UNCHANGED << rec, board, currentPlayer, solutionMoves, currentStep, puzzleElo,
                  pendingReplies, crashed, applied, beatCount >>

\* ChessPuzzle::peekNextMove, called as MainWindow::playSolutionStep calls it:
\* only after isSolved() returned false
PeekNextMove ==
  /\ UNCHANGED window
  /\ rec # 0
  /\ ~crashed
  /\ ~isSolved
  /\ lastCall' = Call("peekNextMove", peekNextMove[1], peekNextMove[2], TRUE, currentStep)
  /\ events' = << >>
  /\ UNCHANGED << rec, board, currentPlayer, solutionMoves, currentStep, puzzleElo, usedHint,
                  pendingReplies, crashed, applied, beatCount >>

\* the squares of MainWindow::onSquareSelected: those of the scripted moves and a few others
ExtraSquares == { Square((3 * k) % 8, (5 * k) % 8) : k \in 1..MaxExtraClicks }
ClickSquares ==
  { solutionMoves[i][j] : i \in 1..Len(solutionMoves), j \in 1..2 } \cup ExtraSquares

\* no main window: the object is used on its own
NoWindow == [currentGame |-> FALSE, currentPuzzle |-> FALSE]

Init ==
  /\ window = NoWindow
  /\ rec = 0
  /\ board = EmptyBoard
  /\ currentPlayer = WHITE
  /\ solutionMoves = << >>
  /\ currentStep = 0
  /\ puzzleElo = 0
  /\ usedHint = FALSE
  /\ pendingReplies = 0
  /\ crashed = FALSE
  /\ events = << >>
  /\ lastCall = Call("none", NoSquare, NoSquare, FALSE, 0)
  /\ applied = << >>
  /\ beatCount = 0

\* MainWindow::makeNewPuzzle: the session is built from a line of the puzzle file
NewPuzzle ==
  /\ UNCHANGED window
  /\ \E r \in RecordIds : ChessPuzzleCtor(r)

\* MainWindow::onSquareSelected in puzzle mode: the second click makes the guess
GuessClick ==
  /\ UNCHANGED window
  /\ \E from \in ClickSquares, to \in ClickSquares : makeGuess(from, to)

Next ==
  \/ NewPuzzle
  \/ GuessClick
  \/ OpponentReply
  \/ requestHint
  \/ requestHintMove
  \/ PeekNextMove

Spec == Init /\ [][Next]_vars

----------------------------------------------------------------------------
(* Properties of the puzzle session *)

\* the call a step makes is described by lastCall', the state it is made in by
\* the unprimed variables

HasBeat(evs) == \E i \in 1..Len(evs) : evs[i].name = "beatPuzzle"

\* C1: after a correct non-final makeGuess, while the scheduled opponent reply
\* is still pending, no makeGuess call is accepted or changes the session.
C1_NoGuessAcceptedWhileReplyPending ==
  [][(lastCall'.op = "makeGuess" /\ pendingReplies > 0)
       => (/\ lastCall'.ret = FALSE
           /\ UNCHANGED << board, currentPlayer, currentStep, pendingReplies, applied >>)]_vars

\* C2: in every state of a session (here: one with a non-empty move list)
\* 0 <= currentStep <= len(solutionMoves), and isSolved() holds exactly when
\* currentStep = len(solutionMoves).
C2_CursorWithinList ==
  (rec # 0 /\ Len(solutionMoves) >= 1)
    => (/\ 0 <= currentStep
        /\ currentStep <= Len(solutionMoves)
        /\ (isSolved <=> currentStep = Len(solutionMoves)))

\* C3: a makeGuess made when the puzzle is already solved, or with a (from, to)
\* that differs from solutionMoves[currentStep], returns false, emits nothing,
\* schedules nothing and leaves board, side to move, cursor and hint flag as
\* they were.
C3_RejectedGuessChangesNothing ==
  [][(/\ lastCall'.op = "makeGuess"
      /\ \/ currentStep >= Len(solutionMoves)
         \/ << lastCall'.from, lastCall'.to >> # solutionMoves[currentStep + 1])
       => (/\ lastCall'.ret = FALSE
           /\ events' = << >>
           /\ UNCHANGED << board, currentPlayer, currentStep, usedHint, solutionMoves,
                           pendingReplies, applied, beatCount >>)]_vars

C3_Witness ==
  /\ lastCall.op = "makeGuess"
  /\ lastCall.ret = FALSE
  /\ currentStep >= 1
  /\ currentStep < Len(solutionMoves)
  /\ lastCall.from = solutionMoves[currentStep + 1][1]
  /\ lastCall.to # solutionMoves[currentStep + 1][2]

\* C4: a makeGuess with currentStep = i < len(solutionMoves) and (from, to) =
\* solutionMoves[i] returns true, moves exactly that piece (destination gets the
\* origin's code, the origin becomes 0, the other squares keep theirs) and
\* returns with currentStep = i + 1; the opponent's reply is not part of the call.
C4_AcceptedGuessAppliesExactlyThatMove ==
  [][(/\ lastCall'.op = "makeGuess"
      /\ currentStep < Len(solutionMoves)
      /\ << lastCall'.from, lastCall'.to >> = solutionMoves[currentStep + 1])
       => (/\ lastCall'.ret = TRUE
           /\ \A r \in 0..7, c \in 0..7 :
                board'[r][c] = IF Square(r, c) = lastCall'.to
                                 THEN board[lastCall'.from.row][lastCall'.from.col]
                               ELSE IF Square(r, c) = lastCall'.from THEN 0
                               ELSE board[r][c]
           /\ currentStep' = currentStep + 1
           /\ applied' = Append(applied, << lastCall'.from, lastCall'.to >>))]_vars

C4_Witness ==
  /\ lastCall.op = "makeGuess"
  /\ lastCall.ret = TRUE
  /\ currentStep = lastCall.step + 1
  /\ currentStep < Len(solutionMoves)
  /\ pendingReplies > 0
  /\ board[lastCall.to.row][lastCall.to.col] # 0

\* C5: every accepted makeGuess that leaves currentStep < len(solutionMoves)
\* schedules exactly one opponent reply and one that reaches len(solutionMoves)
\* schedules none; every reply that runs applies the scripted move at the cursor
\* and advances the cursor by one.
C5_EveryReplyAppliesTheScriptedMove ==
  [][/\ (lastCall'.op = "makeGuess" /\ lastCall'.ret = TRUE)
          => pendingReplies' = pendingReplies
                                 + (IF currentStep' < Len(solutionMoves) THEN 1 ELSE 0)
     /\ (lastCall'.op = "makeOpponentMove")
          => (/\ currentStep < Len(solutionMoves)
              /\ ~crashed'
              /\ currentStep' = currentStep + 1
              /\ applied' = Append(applied, solutionMoves[currentStep + 1]))]_vars

\* C6: in every state of a session (here: one with a non-empty move list) the
\* moves applied to the board are exactly solutionMoves[0 .. currentStep-1], in
\* index order, each once.
C6_AppliedIsThePrefixOfTheScript ==
  (rec # 0 /\ Len(solutionMoves) >= 1)
    => (/\ currentStep <= Len(solutionMoves)
        /\ applied = SubSeq(solutionMoves, 1, currentStep))

\* C7: beatPuzzle is emitted by exactly the makeGuess calls that accept a move
\* and bring currentStep to len(solutionMoves); such a call returns true, and a
\* session emits the signal at most once.
C7_BeatPuzzleOnlyByTheFinalGuessOnce ==
  [][/\ HasBeat(events')
          <=> (/\ lastCall'.op = "makeGuess"
               /\ lastCall'.ret = TRUE
               /\ currentStep' = currentStep + 1
               /\ currentStep' = Len(solutionMoves))
     /\ Cardinality({ i \in 1..Len(events') : events'[i].name = "beatPuzzle" }) <= 1
     /\ HasBeat(events') => beatCount = 0
     /\ beatCount' <= 1]_vars

C7_Witness ==
  /\ lastCall.op = "makeGuess"
  /\ lastCall.ret = TRUE
  /\ HasBeat(events)
  /\ beatCount = 1
  /\ currentStep = Len(solutionMoves)

\* C8: currentStep never decreases; it changes only by +1, and only in an
\* accepted makeGuess or in an opponent reply (hints, peeks and rejected
\* guesses leave it alone).
C8_CursorOnlyAdvancesByOne ==
  [][rec # 0
       => \/ currentStep' = currentStep
          \/ /\ currentStep' = currentStep + 1
             /\ \/ lastCall'.op = "makeGuess" /\ lastCall'.ret = TRUE
                \/ lastCall'.op = "makeOpponentMove"]_vars

C8_Witness ==
  /\ lastCall.op = "makeOpponentMove"
  /\ usedHint
  /\ ~crashed
  /\ currentStep = lastCall.step + 1
  /\ currentStep >= 3

\* C9: on a fresh puzzle, a second makeGuess with the (from, to) of the guess
\* just accepted, made before the opponent reply lands, is compared with the
\* move at the advanced cursor and not with the move just played: it is
\* accepted only if it equals that next move, and otherwise changes nothing.
C9_RepeatedGuessMeetsTheAdvancedCursor ==
  [][(/\ lastCall.op = "makeGuess"
      /\ lastCall.ret = TRUE
      /\ lastCall.step = 1
      /\ pendingReplies > 0
      /\ lastCall'.op = "makeGuess"
      /\ lastCall'.from = lastCall.from
      /\ lastCall'.to = lastCall.to)
       => (/\ currentStep = 2
           /\ lastCall'.ret = (<< lastCall'.from, lastCall'.to >> = solutionMoves[3])
           /\ (<< lastCall'.from, lastCall'.to >> # solutionMoves[3]
                 => UNCHANGED << board, currentPlayer, currentStep, pendingReplies,
                                 applied >>))]_vars

C9_Witness ==
  /\ lastCall.op = "makeGuess"
  /\ lastCall.ret = FALSE
  /\ lastCall.step = 2
  /\ currentStep = 2
  /\ pendingReplies = 1
  /\ << lastCall.from, lastCall.to >> = solutionMoves[2]

\* the meaning of a record, read off the formats: CSV fields, FEN placement
\* (rank 8 first, digits are runs of empty squares, upper case is the positive
\* side), four-character move tokens (row = 8 - rank, col = file - 'a')
RefFields(r) == split(Records[r], 44)
RefFenFields(r) == split(RefFields(r)[2], 32)
RefRanks(r) == split(RefFenFields(r)[1], 47)
RefTokens(r) == split(RefFields(r)[3], 32)

RefKind(c) ==
  LET lower == IF c < 97 THEN c + 32 ELSE c
  IN  CASE lower = 112 -> 1 [] lower = 114 -> 2 [] lower = 110 -> 3
        [] lower = 98 -> 4 [] lower = 113 -> 5 [] lower = 107 -> 6

RECURSIVE RefExpand(_, _)
RefExpand(rank, i) ==
  IF i > Len(rank) THEN << >>
  ELSE (IF rank[i] >= 48 /\ rank[i] <= 57
          THEN [k \in 1..(rank[i] - 48) |-> 0]
          ELSE << (IF rank[i] < 97 THEN 1 ELSE -1) * RefKind(rank[i]) >>)
       \o RefExpand(rank, i + 1)

RefBoard(r) == [row \in 0..7 |-> [col \in 0..7 |-> RefExpand(RefRanks(r)[row + 1], 1)[col + 1]]]

RefSquare(text) == Square(8 - (text[2] - 48), text[1] - 97)

RefMoves(r) ==
  [k \in 1..Len(RefTokens(r)) |->
     << RefSquare(SubSeq(RefTokens(r)[k], 1, 2)), RefSquare(SubSeq(RefTokens(r)[k], 3, 4)) >>]

RefActive(r) == IF RefFenFields(r)[2] = << 98 >> THEN BLACK ELSE WHITE

RefApply(b, m) ==
  [row \in 0..7 |-> [col \in 0..7 |->
     IF Square(row, col) = m[2] THEN b[m[1].row][m[1].col]
     ELSE IF Square(row, col) = m[1] THEN 0
     ELSE b[row][col]]]

WellFormedRecord(r) ==
  /\ Len(RefFields(r)) >= 9
  /\ Len(RefRanks(r)) = 8
  /\ Len(RefTokens(r)) >= 1

\* C10: a session constructed from a well-formed record has the FEN position
\* with solutionMoves[0] applied on the board, the tokens of the move field as
\* solutionMoves, currentStep = 1 and the side opposite to the FEN active colour
\* to move; for "6k1/8/8/8/8/8/8/R5K1 w - - 0 1" with "a1a8 g8h7" the rook is on
\* a8 and peekNextMove() is (g8, h7).
C10_ConstructionFromAWellFormedRecord ==
  (rec # 0 /\ lastCall.op = "ChessPuzzle" /\ WellFormedRecord(rec))
    => (/\ ~crashed
        /\ solutionMoves = RefMoves(rec)
        /\ currentStep = 1
        /\ currentPlayer = -RefActive(rec)
        /\ board = RefApply(RefBoard(rec), RefMoves(rec)[1])
        /\ rec = 1 => (/\ board[0][0] = ROOK
                       /\ board[7][0] = 0
                       /\ board[0][6] = -KING
                       /\ board[7][6] = KING
                       /\ currentPlayer = BLACK
                       /\ peekNextMove = << Square(0, 6), Square(1, 7) >>))

C10_Witness ==
  /\ rec = 1
  /\ lastCall.op = "ChessPuzzle"
  /\ board[0][0] = ROOK
  /\ currentStep = 1

\* the number of comma-separated fields of record r, counted on the text
RefFieldCount(r) == Cardinality({ i \in 1..Len(Records[r]) : Records[r][i] = 44 }) + 1

DefaultBoard ==
  << << -ROOK, -KNIGHT, -BISHOP, -QUEEN, -KING, -BISHOP, -KNIGHT, -ROOK >>,
     << -PAWN, -PAWN, -PAWN, -PAWN, -PAWN, -PAWN, -PAWN, -PAWN >>,
     << 0, 0, 0, 0, 0, 0, 0, 0 >>,
     << 0, 0, 0, 0, 0, 0, 0, 0 >>,
     << 0, 0, 0, 0, 0, 0, 0, 0 >>,
     << 0, 0, 0, 0, 0, 0, 0, 0 >>,
     << PAWN, PAWN, PAWN, PAWN, PAWN, PAWN, PAWN, PAWN >>,
     << ROOK, KNIGHT, BISHOP, QUEEN, KING, BISHOP, KNIGHT, ROOK >> >>

loadDefaultBoard == [r \in 0..7 |-> [c \in 0..7 |-> DefaultBoard[r + 1][c + 1]]]

isLegalKingMoveWithCastling(old, target) ==
  \/ \E i \in -1..1, j \in -1..1 : Square(old.row + i, old.col + j) = target
  \/ \E j \in { -2, 2 } : Square(old.row, old.col + j) = target

isLegalKingMoveUpOnly(old, target) ==
  \E i \in -1..0, j \in -1..1 : Square(old.row + i, old.col + j) = target

\* Chess::isLegalKingMove
isLegalKingMove(old, target) ==
  \E i \in -1..1, j \in -1..1 : Square(old.row + i, old.col + j) = target

\* Chess::isPieceInterrupting: the walk from current towards target
RECURSIVE isPieceInterruptingFrom(_, _, _, _, _)
isPieceInterruptingFrom(b, rowOffset, colOffset, current, target) ==
  IF current = target THEN FALSE
  ELSE IF b[current.row][current.col] # 0 THEN TRUE
  ELSE isPieceInterruptingFrom(b, rowOffset, colOffset,
                               Square(current.row + rowOffset, current.col + colOffset),
                               target)

isPieceInterruptingNextSquareOnly(b, rowOffset, colOffset, old, target) ==
  /\ Square(old.row + rowOffset, old.col + colOffset) # target
  /\ b[old.row + rowOffset][old.col + colOffset] # 0

isPieceInterrupting(b, rowOffset, colOffset, old, target) ==
  isPieceInterruptingFrom(b, rowOffset, colOffset,
                          Square(old.row + rowOffset, old.col + colOffset), target)

isLegalBishopMoveThroughPieces(b, old, target) ==
  abs(target.row - old.row) - abs(target.col - old.col) = 0

\* Chess::isLegalBishopMove
isLegalBishopMove(b, old, target) ==
  LET rowOffset == target.row - old.row
      colOffset == target.col - old.col
  IN  IF abs(rowOffset) - abs(colOffset) = 0
        THEN ~isPieceInterrupting(b, rowOffset \div abs(rowOffset),
                                  colOffset \div abs(colOffset), old, target)
        ELSE FALSE

isLegalRookMoveRowUnchecked(b, old, target) ==
  LET rowOffset == target.row - old.row
      colOffset == target.col - old.col
  IN  IF (rowOffset = 0) # (colOffset = 0)
        THEN IF rowOffset # 0
               THEN ~isPieceInterrupting(b, rowOffset \div abs(rowOffset), colOffset, old,
                                         target)
               ELSE TRUE
        ELSE FALSE

\* Chess::isLegalRookMove
isLegalRookMove(b, old, target) ==
  LET rowOffset == target.row - old.row
      colOffset == target.col - old.col
  IN  IF (rowOffset = 0) # (colOffset = 0)
        THEN ~isPieceInterrupting(b,
                                  IF rowOffset # 0 THEN rowOffset \div abs(rowOffset)
                                                   ELSE rowOffset,
                                  IF rowOffset # 0 THEN colOffset
                                  ELSE IF colOffset # 0 THEN colOffset \div abs(colOffset)
                                  ELSE colOffset,
                                  old, target)
        ELSE FALSE

\* Chess::isLegalQueenMove
isLegalQueenMove(b, old, target) ==
  isLegalBishopMove(b, old, target) \/ isLegalRookMove(b, old, target)

isLegalKnightMoveSevenOffsets(old, target) ==
  LET rowOffsets == << -2, -2, -1, -1, 1, 1, 2, 2 >>
      colOffsets == << 1, -1, 2, -2, -2, 2, 1, -1 >>
  IN  \E i \in 1..7 : Square(old.row + rowOffsets[i], old.col + colOffsets[i]) = target

\* Chess::isLegalKnightMove
isLegalKnightMove(old, target) ==
  LET rowOffsets == << -2, -2, -1, -1, 1, 1, 2, 2 >>
      colOffsets == << 1, -1, 2, -2, -2, 2, 1, -1 >>
  IN  \E i \in 1..8 : Square(old.row + rowOffsets[i], old.col + colOffsets[i]) = target

isLegalPawnMoveLeapAnywhere(b, old, target) ==
  LET rowOffset == target.row - old.row
      colOffset == target.col - old.col
      direction == b[old.row][old.col]
  IN  IF rowOffset * direction > 0 THEN FALSE
      ELSE IF abs(colOffset) = 1 /\ rowOffset * direction = -1
        THEN b[target.row][target.col] * direction <= 0
      ELSE IF colOffset = 0 /\ abs(rowOffset) = 2
        THEN ~isPieceInterrupting(b, -direction, 0, old, target)
      ELSE IF colOffset = 0 /\ abs(rowOffset) = 1 THEN TRUE
      ELSE FALSE

\* Chess::isLegalPawnMove
isLegalPawnMove(b, old, target) ==
  LET rowOffset == target.row - old.row
      colOffset == target.col - old.col
      direction == b[old.row][old.col]
  IN  IF rowOffset * direction > 0 THEN FALSE
      ELSE IF abs(colOffset) = 1 /\ rowOffset * direction = -1
        THEN b[target.row][target.col] * direction <= 0
      ELSE IF colOffset = 0 /\ abs(rowOffset) = 2
        THEN IF (direction = WHITE /\ old.row # 6) \/ (direction = BLACK /\ old.row # 1)
               THEN FALSE
               ELSE ~isPieceInterrupting(b, -direction, 0, old, target)
      ELSE IF colOffset = 0 /\ abs(rowOffset) = 1 THEN TRUE
      ELSE FALSE

\* the switch of Chess::movePiece on the kind of the piece on oldSquare
isLegalMove(b, oldSquare, newSquare) ==
  LET piece == abs(b[oldSquare.row][oldSquare.col])
  IN  CASE piece = KING -> isLegalKingMove(oldSquare, newSquare)
        [] piece = QUEEN -> isLegalQueenMove(b, oldSquare, newSquare)
        [] piece = BISHOP -> isLegalBishopMove(b, oldSquare, newSquare)
        [] piece = KNIGHT -> isLegalKnightMove(oldSquare, newSquare)
        [] piece = ROOK -> isLegalRookMove(b, oldSquare, newSquare)
        [] piece = PAWN -> isLegalPawnMove(b, oldSquare, newSquare)
        [] OTHER -> FALSE

movePieceAcceptsOwnTarget(b, p, oldSquare, newSquare) ==
  IF b[oldSquare.row][oldSquare.col] * p <= 0 THEN FALSE
  ELSE IF oldSquare = newSquare THEN FALSE
  ELSE isLegalMove(b, oldSquare, newSquare)

movePieceAcceptsEitherSide(b, p, oldSquare, newSquare) ==
  IF b[oldSquare.row][oldSquare.col] = 0 THEN FALSE
  ELSE IF oldSquare = newSquare THEN FALSE
  ELSE IF b[newSquare.row][newSquare.col] * b[oldSquare.row][oldSquare.col] > 0 THEN FALSE
  ELSE isLegalMove(b, oldSquare, newSquare)

\* Chess::movePiece: whether the call gets to movePieceUnconditionally
movePieceAccepts(b, p, oldSquare, newSquare) ==
  IF b[oldSquare.row][oldSquare.col] * p <= 0 THEN FALSE
  ELSE IF oldSquare = newSquare THEN FALSE
  ELSE IF b[newSquare.row][newSquare.col] * p > 0 THEN FALSE
  ELSE isLegalMove(b, oldSquare, newSquare)

\* accepted moves of one game of the model
MaxGameMoves == 5

\* Chess::movePiece
movePiece(oldSquare, newSquare) ==
  /\ Len(applied) < MaxGameMoves
  /\ IF movePieceAccepts(board, currentPlayer, oldSquare, newSquare)
       THEN /\ board' = movePieceUnconditionallyBoard(board, oldSquare, newSquare)
            /\ currentPlayer' = switchPlayer(currentPlayer)
            /\ events' = movePieceUnconditionallyEvents(board, currentPlayer, oldSquare,
                                                        newSquare)
            /\ applied' = Append(applied, << oldSquare, newSquare >>)
            /\ lastCall' = Call("movePiece", oldSquare, newSquare, TRUE, currentStep)
       ELSE /\ events' = << >>
            /\ lastCall' = Call("movePiece", oldSquare, newSquare, FALSE, currentStep)
            /\ UNCHANGED << board, currentPlayer, applied >>
  /\ UNCHANGED << rec, solutionMoves, currentStep, puzzleElo, usedHint, pendingReplies,
                  crashed, beatCount >>

\* the squares clicked in standard play: e1 e2 e4 e5 e7 e8 f6 f7 d1 h5 f1
GameSquares ==
  { Square(7, 4), Square(6, 4), Square(4, 4), Square(3, 4), Square(1, 4), Square(0, 4),
    Square(2, 5), Square(1, 5), Square(7, 3), Square(3, 7), Square(7, 5) }

\* MainWindow::on_BoardButton_clicked: currentGame = new Chess; loadDefaultBoard()
GameInit ==
  /\ window = NoWindow
  /\ rec = 0
  /\ board = loadDefaultBoard
  /\ currentPlayer = WHITE
  /\ solutionMoves = << >>
  /\ currentStep = 0
  /\ puzzleElo = 0
  /\ usedHint = FALSE
  /\ pendingReplies = 0
  /\ crashed = FALSE
  /\ events = << >>
  /\ lastCall = Call("loadDefaultBoard", NoSquare, NoSquare, TRUE, 0)
  /\ applied = << >>
  /\ beatCount = 0

\* MainWindow::onSquareSelected in standard play: the second click moves the piece
MoveClick ==
  /\ UNCHANGED window
  /\ \E oldSquare \in GameSquares, newSquare \in GameSquares :
       movePiece(oldSquare, newSquare)

GameSpec == GameInit /\ [][MoveClick]_vars

CountEv(evs, name) == Cardinality({ i \in 1..Len(evs) : evs[i].name = name })

\* C12: in standard play movePiece(from, to) is a silent no-op when the origin
\* holds no piece of the side to move, from = to, the target holds a piece of
\* the side to move, or the rule of the piece rejects the move: board and side
\* to move are unchanged and nothing is emitted; from the default start, the
\* white pawn e2 to e5 changes nothing and the side stays WHITE.
C12_RejectedMovePieceIsASilentNoOp ==
  [][(/\ lastCall'.op = "movePiece"
      /\ LET from == lastCall'.from
             to == lastCall'.to
         IN  \/ board[from.row][from.col] * currentPlayer <= 0
             \/ from = to
             \/ board[to.row][to.col] * currentPlayer > 0
             \/ ~isLegalMove(board, from, to)
             \/ (board = loadDefaultBoard /\ from = Square(6, 4) /\ to = Square(3, 4)))
       => (/\ board' = board
           /\ currentPlayer' = currentPlayer
           /\ events' = << >>
           /\ applied' = applied
           /\ ~lastCall'.ret
           /\ ~crashed')]_vars

C12_Witness ==
  /\ lastCall = Call("movePiece", Square(6, 4), Square(3, 4), FALSE, 0)
  /\ board = loadDefaultBoard
  /\ currentPlayer = WHITE
  /\ events = << >>

\* C13: in standard play the side to move toggles exactly once per accepted
\* movePiece and never otherwise: it is WHITE iff an even number of calls were
\* accepted, and every accepted call moved a piece of the side that was to
\* move; from the default start, the white pawn e2 to e4 is accepted, the pawn
\* stands on e4 and the side becomes BLACK.
C13_SideToMoveTogglesOncePerAcceptedMove ==
  [][lastCall'.op = "movePiece"
       => LET from == lastCall'.from
              to == lastCall'.to
          IN  /\ IF lastCall'.ret
                   THEN /\ currentPlayer' = -currentPlayer
                        /\ CountEv(events', "set_player") = 1
                        /\ board[from.row][from.col] * currentPlayer > 0
                        /\ board'[to.row][to.col] = board[from.row][from.col]
                        /\ Len(applied') = Len(applied) + 1
                   ELSE /\ currentPlayer' = currentPlayer
                        /\ CountEv(events', "set_player") = 0
                        /\ Len(applied') = Len(applied)
              /\ (currentPlayer' = WHITE) <=> (Len(applied') % 2 = 0)
              /\ (board = loadDefaultBoard /\ from = Square(6, 4) /\ to = Square(4, 4))
                   => (/\ lastCall'.ret
                       /\ board'[4][4] = PAWN
                       /\ board'[6][4] = 0
                       /\ currentPlayer' = BLACK)]_vars

C13_Witness ==
  /\ lastCall = Call("movePiece", Square(6, 4), Square(4, 4), TRUE, 0)
  /\ board = movePieceUnconditionallyBoard(loadDefaultBoard, Square(6, 4), Square(4, 4))
  /\ currentPlayer = BLACK
  /\ Len(applied) = 1

\* ---------------------------------------------------------------------------
\* The move primitive called on its own, as ChessPuzzle::makeGuess and
\* ChessPuzzle::makeOpponentMove call it with squares no rule has looked at

\* calls of one run of the model
MaxMoveCalls == 3

\* Chess::movePieceUnconditionally
movePieceUnconditionally(old, target) ==
  /\ Len(applied) < MaxMoveCalls
  /\ board' = movePieceUnconditionallyBoard(board, old, target)
  /\ currentPlayer' = switchPlayer(currentPlayer)
  /\ events' = movePieceUnconditionallyEvents(board, currentPlayer, old, target)
  /\ applied' = Append(applied, << old, target >>)
  /\ lastCall' = Call("movePieceUnconditionally", old, target, TRUE, currentStep)
  /\ UNCHANGED << rec, solutionMoves, currentStep, puzzleElo, usedHint, pendingReplies,
                  crashed, beatCount >>

\* the squares handed to the primitive: e1 e2 e4 e7 e8
MoveSquares == { Square(7, 4), Square(6, 4), Square(4, 4), Square(1, 4), Square(0, 4) }

MoveCall ==
  /\ UNCHANGED window
  /\ \E old \in MoveSquares, target \in MoveSquares :
       movePieceUnconditionally(old, target)

MoveSpec == GameInit /\ [][MoveCall]_vars

\* the number of occupied squares of a board
CountPieces(b) == Cardinality({ sq \in (0..7) \X (0..7) : b[sq[1]][sq[2]] # 0 })

\* C14: movePieceUnconditionally(from, to) on distinct squares puts the code of
\* the origin on the destination, 0 on the origin, leaves the other 62 squares
\* as they were, flips the side to move once and emits board-updated once,
\* whatever the rules say about the move.
C14_UnconditionalMoveOverwritesAndClears ==
  [][(lastCall'.op = "movePieceUnconditionally" /\ lastCall'.from # lastCall'.to)
       => LET from == lastCall'.from
              to == lastCall'.to
          IN  /\ \A r \in 0..7, c \in 0..7 :
                   board'[r][c] = IF Square(r, c) = to THEN board[from.row][from.col]
                                  ELSE IF Square(r, c) = from THEN 0
                                  ELSE board[r][c]
              /\ currentPlayer' = -currentPlayer
              /\ CountEv(events', "set_player") = 1
              /\ CountEv(events', "update_board") = 1]_vars

\* the white king has gone from e1 straight onto the black king on e8
C14_Witness ==
  /\ lastCall = Call("movePieceUnconditionally", Square(7, 4), Square(0, 4), TRUE, 0)
  /\ board[0][4] = KING
  /\ board[7][4] = 0
  /\ board[1][4] = -PAWN
  /\ currentPlayer = BLACK
  /\ CountEv(events, "update_board") = 1

\* C15: movePieceUnconditionally(from, to) emits a capture event iff the
\* destination held a non-zero code before the call, whatever the origin holds,
\* and the event carries the destination's coordinates (col + 0.5,
\* 8 - row - 0.5, doubled here) and the particle count 30.
C15_CaptureIffDestinationOccupied ==
  [][lastCall'.op = "movePieceUnconditionally"
       => LET to == lastCall'.to
          IN  /\ (CountEv(events', "capture_at") > 0) <=> (board[to.row][to.col] # 0)
              /\ \A i \in 1..Len(events') :
                   events'[i].name = "capture_at"
                     => events'[i].args = << 2 * to.col + 1, 15 - 2 * to.row, 30 >>]_vars

\* C16: a movePieceUnconditionally call whose destination holds a king emits
\* exactly one capture event and exactly one game-won event, a game-won event
\* is always preceded by a capture event of the same call, and a call whose
\* destination holds no king emits no game-won event.
C16_KingCaptureEmitsCaptureThenWon ==
  [][lastCall'.op = "movePieceUnconditionally"
       => LET to == lastCall'.to
          IN  /\ abs(board[to.row][to.col]) = KING
                   => (/\ CountEv(events', "capture_at") = 1
                       /\ CountEv(events', "won_game") = 1)
              /\ \A i \in 1..Len(events') :
                   events'[i].name = "won_game"
                     => \E j \in 1..(i - 1) : events'[j].name = "capture_at"
              /\ abs(board[to.row][to.col]) # KING
                   => CountEv(events', "won_game") = 0]_vars

\* C17: movePieceUnconditionally on two distinct squares leaves the number of
\* occupied squares unchanged or smaller by exactly one.
C17_PieceCountSameOrOneFewer ==
  [][(lastCall'.op = "movePieceUnconditionally" /\ lastCall'.from # lastCall'.to)
       => (\/ CountPieces(board') = CountPieces(board)
           \/ CountPieces(board') = CountPieces(board) - 1)]_vars

\* an empty e4 has been moved onto the pawn on e2, and the pawn is gone
C17_Witness ==
  /\ lastCall = Call("movePieceUnconditionally", Square(4, 4), Square(6, 4), TRUE, 0)
  /\ Len(applied) = 1
  /\ board[6][4] = 0
  /\ CountPieces(board) = 31

\* ---------------------------------------------------------------------------
\* The rules of the pieces, asked about boards set up with Chess::loadBoard

AllSquares == { Square(r, c) : r \in 0..7, c \in 0..7 }

\* pieces standing around the piece that is asked about
MaxBlockers == 2

RuleOrigins == { Square(6, 4), Square(1, 3), Square(4, 4), Square(3, 2), Square(0, 0) }

RuleBlockerSquares ==
  { Square(5, 4), Square(4, 4), Square(5, 5), Square(2, 3), Square(3, 3), Square(2, 2),
    Square(3, 4), Square(4, 6), Square(0, 3) }

RuleBoard(origin, piece, blockers, code) ==
  [r \in 0..7 |-> [c \in 0..7 |->
     IF Square(r, c) = origin THEN piece
     ELSE IF Square(r, c) \in blockers THEN code
     ELSE 0]]

\* Chess::loadBoard with a board of one pawn, bishop, rook or queen and a few knights
RuleInit ==
  /\ window = NoWindow
  /\ \E origin \in RuleOrigins, piece \in { PAWN, -PAWN, BISHOP, -BISHOP, ROOK, -ROOK, QUEEN, -QUEEN } :
     \E blockers \in SUBSET (RuleBlockerSquares \ { origin }), code \in { KNIGHT, -KNIGHT } :
       /\ Cardinality(blockers) <= MaxBlockers
       /\ board = RuleBoard(origin, piece, blockers, code)
       /\ currentPlayer = IF piece > 0 THEN WHITE ELSE BLACK
  /\ rec = 0
  /\ solutionMoves = << >>
  /\ currentStep = 0
  /\ puzzleElo = 0
  /\ usedHint = FALSE
  /\ pendingReplies = 0
  /\ crashed = FALSE
  /\ events = << >>
  /\ lastCall = Call("loadBoard", NoSquare, NoSquare, TRUE, 0)
  /\ applied = << >>
  /\ beatCount = 0

\* what Chess::movePiece has established when it asks the rule of a piece
movePiecePreconditions(b, p, oldSquare, newSquare) ==
  /\ b[oldSquare.row][oldSquare.col] * p > 0
  /\ oldSquare # newSquare
  /\ b[newSquare.row][newSquare.col] * p <= 0

\* Chess::movePiece asks Chess::isLegalPawnMove; the rules change nothing, so
\* each board set up is asked one question
PawnRule ==
  /\ UNCHANGED window
  /\ lastCall.op = "loadBoard"
  /\ \E old \in AllSquares, target \in AllSquares :
    /\ movePiecePreconditions(board, currentPlayer, old, target)
    /\ abs(board[old.row][old.col]) = PAWN
    /\ lastCall' = Call("isLegalPawnMove", old, target, isLegalPawnMove(board, old, target),
                        currentStep)
    /\ UNCHANGED << rec, board, currentPlayer, solutionMoves, currentStep, puzzleElo,
                    usedHint, pendingReplies, crashed, events, applied, beatCount >>

\* Chess::movePiece asks Chess::isLegalBishopMove
BishopRule ==
  /\ UNCHANGED window
  /\ lastCall.op = "loadBoard"
  /\ \E old \in AllSquares, target \in AllSquares :
    /\ movePiecePreconditions(board, currentPlayer, old, target)
    /\ abs(board[old.row][old.col]) = BISHOP
    /\ lastCall' = Call("isLegalBishopMove", old, target,
                        isLegalBishopMove(board, old, target), currentStep)
    /\ UNCHANGED << rec, board, currentPlayer, solutionMoves, currentStep, puzzleElo,
                    usedHint, pendingReplies, crashed, events, applied, beatCount >>

\* Chess::movePiece asks Chess::isLegalRookMove
RookRule ==
  /\ UNCHANGED window
  /\ lastCall.op = "loadBoard"
  /\ \E old \in AllSquares, target \in AllSquares :
    /\ movePiecePreconditions(board, currentPlayer, old, target)
    /\ abs(board[old.row][old.col]) = ROOK
    /\ lastCall' = Call("isLegalRookMove", old, target, isLegalRookMove(board, old, target),
                        currentStep)
    /\ UNCHANGED << rec, board, currentPlayer, solutionMoves, currentStep, puzzleElo,
                    usedHint, pendingReplies, crashed, events, applied, beatCount >>

\* Chess::movePiece asks Chess::isLegalQueenMove
QueenRule ==
  /\ UNCHANGED window
  /\ lastCall.op = "loadBoard"
  /\ \E old \in AllSquares, target \in AllSquares :
    /\ movePiecePreconditions(board, currentPlayer, old, target)
    /\ abs(board[old.row][old.col]) = QUEEN
    /\ lastCall' = Call("isLegalQueenMove", old, target, isLegalQueenMove(board, old, target),
                        currentStep)
    /\ UNCHANGED << rec, board, currentPlayer, solutionMoves, currentStep, puzzleElo,
                    usedHint, pendingReplies, crashed, events, applied, beatCount >>

RuleNext ==
  \/ PawnRule
  \/ BishopRule
  \/ RookRule
  \/ QueenRule

RuleSpec == RuleInit /\ [][RuleNext]_vars

\* the squares strictly between two squares of a row, a column or a diagonal
RefBetween(old, target) ==
  { sq \in AllSquares :
      /\ sq # old
      /\ sq # target
      /\ \/ sq.row = old.row /\ sq.row = target.row
         \/ sq.col = old.col /\ sq.col = target.col
         \/ /\ abs(sq.row - old.row) = abs(sq.col - old.col)
            /\ abs(sq.row - target.row) = abs(sq.col - target.col)
      /\ abs(sq.row - old.row) + abs(target.row - sq.row) = abs(target.row - old.row)
      /\ abs(sq.col - old.col) + abs(target.col - sq.col) = abs(target.col - old.col) }

RefPathEmpty(b, old, target) == \A sq \in RefBetween(old, target) : b[sq.row][sq.col] = 0

\* the pawn rule as stated: side is the pawn's code, forward is towards row 0
\* for the positive side and towards row 7 for the negative side
RefPawn(b, old, target) ==
  LET side == b[old.row][old.col]
      forward == (old.row - target.row) * side
      sideways == abs(target.col - old.col)
  IN  IF forward < 0 THEN FALSE
      ELSE IF sideways = 1 /\ forward = 1 THEN b[target.row][target.col] * side <= 0
      ELSE IF sideways = 0 /\ forward = 2
        THEN /\ old.row = (IF side > 0 THEN 6 ELSE 1)
             /\ b[(old.row + target.row) \div 2][old.col] = 0
      ELSE sideways = 0 /\ forward = 1

\* C18: under the preconditions of movePiece the pawn rule is: backward is
\* illegal; one column aside and one row forward is legal iff target * side <= 0;
\* two rows forward in the same column is legal iff the pawn stands on its home
\* row (6 for the positive side, 1 for the negative side) and the square in
\* between is empty; one row forward in the same column is legal whatever the
\* target holds; everything else is illegal.
C18_PawnRuleAgreesWithTheReference ==
  lastCall.op = "isLegalPawnMove"
    => lastCall.ret = RefPawn(board, lastCall.from, lastCall.to)

\* a white pawn on its home square e2 is allowed to e4 over the empty e3
C18_Witness ==
  /\ lastCall = Call("isLegalPawnMove", Square(6, 4), Square(4, 4), TRUE, 0)
  /\ board[6][4] = PAWN
  /\ board[5][4] = 0
  /\ board[4][4] = -KNIGHT

\* C19: under the preconditions of movePiece the bishop rule holds of two
\* distinct squares exactly when |row delta| = |col delta| and every square
\* strictly between them on the diagonal is empty.
C19_BishopRuleIsDiagonalAndUnobstructed ==
  lastCall.op = "isLegalBishopMove"
    => lastCall.ret = (/\ abs(lastCall.to.row - lastCall.from.row)
                            = abs(lastCall.to.col - lastCall.from.col)
                       /\ RefPathEmpty(board, lastCall.from, lastCall.to))

\* a bishop on e4 is refused c6 behind the knight on d5
C19_Witness ==
  /\ lastCall = Call("isLegalBishopMove", Square(4, 4), Square(2, 2), FALSE, 0)
  /\ abs(board[4][4]) = BISHOP
  /\ board[3][3] # 0

\* C20: under the preconditions of movePiece the rook rule holds of two distinct
\* squares exactly when exactly one of row delta and col delta is zero and
\* every square strictly between them on the line is empty.
C20_RookRuleIsOrthogonalAndUnobstructed ==
  lastCall.op = "isLegalRookMove"
    => lastCall.ret = (/\ (lastCall.to.row = lastCall.from.row)
                            # (lastCall.to.col = lastCall.from.col)
                       /\ RefPathEmpty(board, lastCall.from, lastCall.to))

\* a rook on a8 is refused h8 behind the knight on d8
C20_Witness ==
  /\ lastCall = Call("isLegalRookMove", Square(0, 0), Square(0, 7), FALSE, 0)
  /\ abs(board[0][0]) = ROOK
  /\ board[0][3] # 0

\* a board with the code on one square replaced
BoardWith(b, sq, code) == [b EXCEPT ![sq.row][sq.col] = code]

\* C21: for bishop, rook and queen the move is illegal whenever a square
\* strictly between origin and target is occupied, on every straight or
\* diagonal path of length 2 to 7, and what stands on the origin and on the
\* target makes no difference to the answer.
C21_SlidingMovesStopAtTheFirstPiece ==
  lastCall.op \in { "isLegalBishopMove", "isLegalRookMove", "isLegalQueenMove" }
    => LET from == lastCall.from
           to == lastCall.to
           rule(b) == CASE lastCall.op = "isLegalBishopMove" -> isLegalBishopMove(b, from, to)
                        [] lastCall.op = "isLegalRookMove" -> isLegalRookMove(b, from, to)
                        [] lastCall.op = "isLegalQueenMove" -> isLegalQueenMove(b, from, to)
       IN  /\ ~RefPathEmpty(board, from, to) => ~lastCall.ret
           /\ \A code \in { 0, PAWN, -PAWN } :
                /\ lastCall.ret = rule(BoardWith(board, to, code))
                /\ lastCall.ret = rule(BoardWith(board, from, code))

\* a queen on a8 is refused h1, seven squares down the diagonal, by the knight on d5
C21_Witness ==
  /\ lastCall = Call("isLegalQueenMove", Square(0, 0), Square(7, 7), FALSE, 0)
  /\ abs(board[0][0]) = QUEEN
  /\ board[1][1] = 0
  /\ board[2][2] = 0
  /\ board[3][3] # 0

\* ---------------------------------------------------------------------------
\* The rules of king and knight, asked from every square of the board

\* other pieces standing on the board
MaxBystanders == 1

JumpBystanderSquares == { Square(3, 3), Square(6, 5), Square(1, 1) }

\* Chess::loadBoard with a board of one king or knight and a few pawns
JumpInit ==
  /\ window = NoWindow
  /\ \E origin \in AllSquares, piece \in { KING, -KING, KNIGHT, -KNIGHT } :
     \E bystanders \in SUBSET (JumpBystanderSquares \ { origin }), code \in { PAWN, -PAWN } :
       /\ Cardinality(bystanders) <= MaxBystanders
       /\ board = RuleBoard(origin, piece, bystanders, code)
       /\ currentPlayer = IF piece > 0 THEN WHITE ELSE BLACK
  /\ rec = 0
  /\ solutionMoves = << >>
  /\ currentStep = 0
  /\ puzzleElo = 0
  /\ usedHint = FALSE
  /\ pendingReplies = 0
  /\ crashed = FALSE
  /\ events = << >>
  /\ lastCall = Call("loadBoard", NoSquare, NoSquare, TRUE, 0)
  /\ applied = << >>
  /\ beatCount = 0

\* Chess::movePiece asks Chess::isLegalKingMove
KingRule ==
  /\ UNCHANGED window
  /\ lastCall.op = "loadBoard"
  /\ \E old \in AllSquares, target \in AllSquares :
    /\ movePiecePreconditions(board, currentPlayer, old, target)
    /\ abs(board[old.row][old.col]) = KING
    /\ lastCall' = Call("isLegalKingMove", old, target, isLegalKingMove(old, target),
                        currentStep)
    /\ UNCHANGED << rec, board, currentPlayer, solutionMoves, currentStep, puzzleElo,
                    usedHint, pendingReplies, crashed, events, applied, beatCount >>

\* Chess::movePiece asks Chess::isLegalKnightMove
KnightRule ==
  /\ UNCHANGED window
  /\ lastCall.op = "loadBoard"
  /\ \E old \in AllSquares, target \in AllSquares :
    /\ movePiecePreconditions(board, currentPlayer, old, target)
    /\ abs(board[old.row][old.col]) = KNIGHT
    /\ lastCall' = Call("isLegalKnightMove", old, target, isLegalKnightMove(old, target),
                        currentStep)
    /\ UNCHANGED << rec, board, currentPlayer, solutionMoves, currentStep, puzzleElo,
                    usedHint, pendingReplies, crashed, events, applied, beatCount >>

JumpNext ==
  \/ KingRule
  \/ KnightRule

JumpSpec == JumpInit /\ [][JumpNext]_vars

\* C22: under the preconditions of movePiece the king rule holds exactly when
\* the target is at Chebyshev distance 1 from the origin, from every square of
\* the board, the edges included, whatever else stands on the board; a step of
\* two squares along the row (castling) is never legal.
C22_KingRuleIsOneStepInAnyDirection ==
  lastCall.op = "isLegalKingMove"
    => LET rows == abs(lastCall.to.row - lastCall.from.row)
           cols == abs(lastCall.to.col - lastCall.from.col)
       IN  /\ lastCall.ret = ((IF rows > cols THEN rows ELSE cols) = 1)
           /\ (rows = 0 /\ cols = 2) => ~lastCall.ret

\* the white king on e1 is refused g1
C22_Witness ==
  /\ lastCall = Call("isLegalKingMove", Square(7, 4), Square(7, 6), FALSE, 0)
  /\ board[7][4] = KING
  /\ board[6][5] = -PAWN

\* C23: the knight rule holds exactly when (row delta, col delta) is one of
\* (+-1, +-2), (+-2, +-1), from every square of the board, those near the edge
\* included, whatever stands between origin and target.
C23_KnightRuleIsTheEightOffsets ==
  lastCall.op = "isLegalKnightMove"
    => lastCall.ret = (<< abs(lastCall.to.row - lastCall.from.row),
                          abs(lastCall.to.col - lastCall.from.col) >>
                         \in { << 1, 2 >>, << 2, 1 >> })

\* the knight on g1 jumps to e2 over the pawn on f2
C23_Witness ==
  /\ lastCall = Call("isLegalKnightMove", Square(7, 6), Square(6, 4), TRUE, 0)
  /\ abs(board[7][6]) = KNIGHT
  /\ board[6][5] # 0

\* the square a square goes to when the board is turned by 180 degrees
Rot(sq) == Square(7 - sq.row, 7 - sq.col)

\* C24: king and knight legality are invariant under the 180-degree rotation
\* rot(r, c) = (7 - r, 7 - c): legal(a, b) = legal(rot(a), rot(b)) for all
\* squares a and b, so neither rule depends on the side that moves.
C24_KingAndKnightRulesAreRotationSymmetric ==
  /\ lastCall.op = "isLegalKingMove"
       => lastCall.ret = isLegalKingMove(Rot(lastCall.from), Rot(lastCall.to))
  /\ lastCall.op = "isLegalKnightMove"
       => lastCall.ret = isLegalKnightMove(Rot(lastCall.from), Rot(lastCall.to))

\* the black king on a8 is allowed b7, as the king on h1 is allowed g2
C24_Witness ==
  /\ lastCall = Call("isLegalKingMove", Square(0, 0), Square(1, 1), TRUE, 0)
  /\ board[0][0] = -KING
  /\ isLegalKingMove(Square(7, 7), Square(6, 6))

\* ---------------------------------------------------------------------------
\* struct Square: its two constructors and its stream output

\* Square::Square(int row, int col): ok = FALSE where the constructor throws
SquareFromInts(row, col) ==
  IF col > 7 \/ row > 7 \/ col < 0 \/ row < 0
    THEN [ok |-> FALSE, row |-> -1, col |-> -1]
    ELSE [ok |-> TRUE, row |-> row, col |-> col]

SquareToStreamRankOffByOne(obj) ==
  << 91, 97 + obj.col, 48 + 7 - obj.row, 93, 40, 48 + obj.row, 44, 48 + obj.col, 41 >>

\* operator<<(std::ostream&, const Square&): the characters written, which are
\* '[' let num ']' '(' row ',' col ')'; row and col are single digits here
SquareToStream(obj) ==
  << 91, 97 + obj.col, 48 + 7 - obj.row + 1, 93, 40, 48 + obj.row, 44, 48 + obj.col, 41 >>

\* how far outside 0..7 the integers handed to Square(int, int) go
MaxOutside == 2

\* first characters: '@' 'A' 'H' 'I' '`' 'a'..'i'; second characters: '/' '0'..'9' ':'
FileChars == { 64, 65, 72, 73, 96 } \cup (97..105)
RankChars == 47..58

\* the texts handed to Square(std::string): every pair of the characters
\* above, and texts of length 0, 1 and 3
SquareTexts ==
  { << f, r >> : f \in FileChars, r \in RankChars }
    \cup { << >>, << 101 >>, << 101, 52, 32 >> }

NoText == [text |-> << >>, sq |-> NoSquare, out |-> << >>]

\* Square::Square(std::string) on a text; first is what the text was read off
SquareOfText(text, first) ==
  /\ lastCall' = [op |-> "Square(string)", text |-> text, ok |-> SquareFromString(text).ok,
                  sq |-> Square(SquareFromString(text).row, SquareFromString(text).col),
                  first |-> first]
  /\ UNCHANGED << rec, board, currentPlayer, solutionMoves, currentStep, puzzleElo, usedHint,
                  pendingReplies, crashed, events, applied, beatCount >>

NewSquareOfText ==
  /\ UNCHANGED window
  /\ \E text \in SquareTexts : SquareOfText(text, NoText)

\* Square::Square(int, int)
NewSquareOfInts ==
  \E row \in (0 - MaxOutside)..(7 + MaxOutside), col \in (0 - MaxOutside)..(7 + MaxOutside) :
    /\ UNCHANGED window
    /\ lastCall' = [op |-> "Square(int,int)", row |-> row, col |-> col,
                    ok |-> SquareFromInts(row, col).ok,
                    sq |-> Square(SquareFromInts(row, col).row, SquareFromInts(row, col).col)]
    /\ UNCHANGED << rec, board, currentPlayer, solutionMoves, currentStep, puzzleElo, usedHint,
                    pendingReplies, crashed, events, applied, beatCount >>

\* operator<< on a Square constructed from a text
StreamSquare ==
  /\ UNCHANGED window
  /\ lastCall.op = "Square(string)"
  /\ lastCall.ok
  /\ lastCall' = [op |-> "operator<<", text |-> lastCall.text, sq |-> lastCall.sq,
                  out |-> SquareToStream(lastCall.sq)]
  /\ UNCHANGED << rec, board, currentPlayer, solutionMoves, currentStep, puzzleElo, usedHint,
                  pendingReplies, crashed, events, applied, beatCount >>

\* Square::Square(std::string) on what operator<< wrote: on all of it, or on
\* the file and rank characters between the brackets
SquareOfStreamed ==
  /\ UNCHANGED window
  /\ lastCall.op = "operator<<"
  /\ \E text \in { lastCall.out, SubSeq(lastCall.out, 2, 3) } :
       SquareOfText(text, [text |-> lastCall.text, sq |-> lastCall.sq, out |-> lastCall.out])

SquareNext ==
  \/ NewSquareOfText
  \/ NewSquareOfInts
  \/ StreamSquare
  \/ SquareOfStreamed

SquareSpec == Init /\ [][SquareNext]_vars

\* a letter in lower case
RefLower(c) == IF c >= 65 /\ c <= 90 THEN c + 32 ELSE c

\* the 64 texts "a1" .. "h8"
AlgebraicTexts == { << f, r >> : f \in 97..104, r \in 49..56 }

\* C25: every Square that a constructor produces has row and col in 0..7:
\* Square(row, col) fails exactly when a coordinate is outside 0..7, and
\* Square(text) rejects every text that would give a row or col outside 0..7.
C25_EveryConstructedSquareIsOnTheBoard ==
  /\ (lastCall.op \in { "Square(string)", "Square(int,int)" } /\ lastCall.ok)
       => (lastCall.sq.row \in 0..7 /\ lastCall.sq.col \in 0..7)
  /\ lastCall.op = "Square(int,int)"
       => (~lastCall.ok) = (lastCall.row \notin 0..7 \/ lastCall.col \notin 0..7)
  /\ (lastCall.op = "Square(string)" /\ Len(lastCall.text) = 2)
       => ((\/ 8 - (lastCall.text[2] - 48) \notin 0..7
            \/ RefLower(lastCall.text[1]) - 97 \notin 0..7) => ~lastCall.ok)

C29_HintsPeekAndAreNoOpsAtTheEnd ==
  [][lastCall'.op \in { "requestHint", "requestHintMove" }
       => /\ UNCHANGED << board, currentPlayer, solutionMoves, currentStep >>
          /\ IF currentStep < Len(solutionMoves)
               THEN LET mv == solutionMoves[currentStep + 1]
                    IN  /\ usedHint'
                        /\ lastCall'.op = "requestHint"
                             => events' = << Ev("hintAvailable", << mv[1].row, mv[1].col >>) >>
                        /\ lastCall'.op = "requestHintMove"
                             => events' = << Ev("hintMoveAvailable",
                                                << mv[1].row, mv[1].col,
                                                   mv[2].row, mv[2].col >>) >>
               ELSE /\ events' = << >>
                    /\ UNCHANGED << rec, board, currentPlayer, solutionMoves, currentStep,
                                    puzzleElo, usedHint, pendingReplies, crashed, applied,
                                    beatCount >>]_vars

\* ---------------------------------------------------------------------------
\* One board object through all the operations that write it

addPieceCodeOneKindUp(player, piece) == player * (piece + 1)

\* Chess::addPiece: the code written, player * piece
addPieceCode(player, piece) == player * piece

\* Chess::addPiece
addPiece(player, piece, square) ==
  /\ board' = BoardWith(board, square, addPieceCode(player, piece))
  /\ events' = << >>
  /\ lastCall' = Call("addPiece", square, square, TRUE, currentStep)
  /\ UNCHANGED << rec, currentPlayer, solutionMoves, currentStep, puzzleElo, usedHint,
                  pendingReplies, crashed, applied, beatCount >>

\* Chess::clearBoard. Both loops count down from 0 (row--, col--), so after
\* board[0][0] the inner loop writes board[0][-1], board[0][-2], ... below the
\* array and never reaches col = 8: the member declared before the board,
\* currentPlayer, may be zeroed on the way, and the call ends in a fault, not in
\* a return.
clearBoard ==
  /\ board' = BoardWith(board, Square(0, 0), 0)
  /\ currentPlayer' \in { currentPlayer, 0 }
  /\ crashed' = TRUE
  /\ events' = << >>
  /\ lastCall' = Call("clearBoard", NoSquare, NoSquare, FALSE, currentStep)
  /\ UNCHANGED << rec, solutionMoves, currentStep, puzzleElo, usedHint, pendingReplies,
                  applied, beatCount >>

\* the squares used on this board: e2 e4 e8
BoardSquares == { Square(6, 4), Square(4, 4), Square(0, 4) }

\* Chess::loadDefaultBoard on the new object
BoardLoadDefault ==
  /\ UNCHANGED window
  /\ lastCall.op = "none"
  /\ board' = loadDefaultBoard
  /\ lastCall' = Call("loadDefaultBoard", NoSquare, NoSquare, TRUE, 0)
  /\ UNCHANGED << rec, currentPlayer, solutionMoves, currentStep, puzzleElo, usedHint,
                  pendingReplies, crashed, events, applied, beatCount >>

\* ChessPuzzle::ChessPuzzle on a line of the puzzle file: loadFEN and the first reply
BoardLoadFEN ==
  /\ lastCall.op = "none"
  /\ NewPuzzle

\* Chess::addPiece on e4 while the board is set up
BoardAddPiece ==
  /\ UNCHANGED window
  /\ rec = 0
  /\ ~crashed
  /\ lastCall.op \in { "none", "loadDefaultBoard" }
  /\ \E player \in { WHITE, BLACK }, piece \in PAWN..KING :
       addPiece(player, piece, Square(4, 4))

BoardMovePiece ==
  /\ UNCHANGED window
  /\ rec = 0
  /\ ~crashed
  /\ \E oldSquare \in BoardSquares, newSquare \in BoardSquares :
       movePiece(oldSquare, newSquare)

BoardMovePieceUnconditionally ==
  /\ UNCHANGED window
  /\ rec = 0
  /\ ~crashed
  /\ \E old \in BoardSquares, target \in BoardSquares : movePieceUnconditionally(old, target)

BoardClear ==
  /\ UNCHANGED window
  /\ ~crashed
  /\ clearBoard

BoardNext ==
  \/ BoardLoadDefault
  \/ BoardLoadFEN
  \/ BoardAddPiece
  \/ BoardMovePiece
  \/ BoardMovePieceUnconditionally
  \/ GuessClick
  \/ OpponentReply
  \/ BoardClear

BoardSpec == Init /\ [][BoardNext]_vars

\* C28: clearBoard returns, every one of the 64 squares then holds 0 whatever
\* the board held before, and the side to move is as it was.
C28_ClearBoardEmptiesTheBoard ==
  [][lastCall'.op = "clearBoard"
       => (/\ ~crashed'
           /\ board' = EmptyBoard
           /\ currentPlayer' = currentPlayer)]_vars

EvIndexes(evs, name) == { i \in 1..Len(evs) : evs[i].name = name }

\* C31 as stated: turn-changed and board-updated are emitted on every call of
\* movePieceUnconditionally, and every capture event and every game-won event
\* of the call comes before the turn-changed event.
C31_FlipAndBoardUpdatedComeLast ==
  [][lastCall'.op = "movePieceUnconditionally"
       => /\ CountEv(events', "set_player") = 1
          /\ CountEv(events', "update_board") = 1
          /\ \A i \in EvIndexes(events', "capture_at") \cup EvIndexes(events', "won_game") :
               \A j \in EvIndexes(events', "set_player") \cup EvIndexes(events', "update_board") :
                 i < j]_vars

\* C31, amended: every call of movePieceUnconditionally emits turn-changed
\* exactly once and board-updated exactly once, board-updated is the last event
\* of the call, every capture event comes before turn-changed, and a game-won
\* event comes after turn-changed and before board-updated.
C31_BoardUpdatedComesLastAndWonFollowsTheFlip ==
  [][lastCall'.op = "movePieceUnconditionally"
       => /\ CountEv(events', "set_player") = 1
          /\ CountEv(events', "update_board") = 1
          /\ events'[Len(events')].name = "update_board"
          /\ \A i \in EvIndexes(events', "capture_at") :
               \A j \in EvIndexes(events', "set_player") : i < j
          /\ \A i \in EvIndexes(events', "won_game") :
               /\ \A j \in EvIndexes(events', "set_player") : j < i
               /\ \A j \in EvIndexes(events', "update_board") : i < j
          /\ events'[CHOOSE j \in EvIndexes(events', "set_player") : TRUE].args
               = << currentPlayer' >>]_vars

\* the white king has taken the black king: capture, turn-changed, game-won, board-updated
C31_Witness ==
  /\ lastCall.op = "movePieceUnconditionally"
  /\ Len(events) = 4
  /\ events[1].name = "capture_at"
  /\ events[2] = Ev("set_player", << BLACK >>)
  /\ events[3].name = "won_game"
  /\ events[4].name = "update_board"
  /\ currentPlayer = BLACK

\* ---------------------------------------------------------------------------
\* Side to move in a puzzle session

\* the active colour written in the FEN field of record r
RefActiveColour(r) ==
  IF split(split(Records[r], 44)[2], 32)[2] = << 98 >> THEN BLACK ELSE WHITE

\* C32: in a session built from a nine-field record the side to move flips
\* exactly once per applied scripted move and at no other time: a step flips it
\* iff it applies the move at the cursor and advances the cursor by one, so the
\* side is the FEN active colour when currentStep is even and the other colour
\* when it is odd; rejected guesses, hints and peeks leave it alone.
C32_SideFlipsOncePerScriptedMove ==
  [][(rec' # 0 /\ ~tooFewParts(split(Records[rec'], 44)) /\ ~crashed')
       => /\ currentPlayer' = IF currentStep' % 2 = 0 THEN RefActiveColour(rec')
                              ELSE -RefActiveColour(rec')
          /\ rec = 0
               => (currentStep' # 0
                     => /\ Len(solutionMoves') >= 1
                        /\ currentStep' = 1
                        /\ applied' = << solutionMoves'[1] >>)
          /\ rec # 0
               => /\ (currentPlayer' # currentPlayer) <=> (currentStep' # currentStep)
                  /\ currentPlayer' # currentPlayer
                       => /\ currentStep < Len(solutionMoves)
                          /\ currentStep' = currentStep + 1
                          /\ applied' = Append(applied, solutionMoves[currentStep + 1])
                  /\ (\/ lastCall'.op \in { "requestHint", "requestHintMove", "peekNextMove" }
                      \/ (lastCall'.op = "makeGuess" /\ ~lastCall'.ret))
                       => currentPlayer' = currentPlayer]_vars

\* ---------------------------------------------------------------------------
\* The reads of makeOpponentMove

\* the constructor on record r gets as far as its call of makeOpponentMove
RefCtorMakesTheForcedMove(r) ==
  LET parts == split(Records[r], 44)
  IN  /\ ~tooFewParts(parts)
      /\ stoi(parts[4]).ok
      /\ ~loadFEN(parts[2], EmptyBoard).wild
      /\ loadMoves(parts[3]).ok

\* C35: every execution of makeOpponentMove, from the constructor or from a
\* deferred timer, runs with currentStep < len(solutionMoves), also for a record
\* with an empty move field and for a reply that was pending while other
\* guesses were accepted.
C35_EveryReplyReadsAnExistingMove ==
  [][/\ lastCall'.op = "makeOpponentMove" => currentStep < Len(solutionMoves)
     /\ (lastCall'.op = "ChessPuzzle" /\ rec = 0 /\ RefCtorMakesTheForcedMove(rec'))
          => 0 < Len(loadMoves(split(Records[rec'], 44)[3]).moves)]_vars

\* ---------------------------------------------------------------------------
\* Solved puzzles and the puzzle-solved event

\* C36: in a session built from a well-formed record with at least one move,
\* whenever isSolved() is true the puzzle-solved event has been emitted: the
\* cursor does not reach len(solutionMoves) through the constructor's forced
\* move or through a deferred reply without the event.
C36_SolvedImpliesThePuzzleSolvedEvent ==
  (/\ rec # 0
   /\ ~crashed
   /\ RefCtorMakesTheForcedMove(rec)
   /\ Len(solutionMoves) >= 1
   /\ isSolved)
    => beatCount >= 1

\* ---------------------------------------------------------------------------
\* Pieces of each side in standard play

\* the number of squares of b holding a piece of side p
CountSide(b, p) == Cardinality({ sq \in (0..7) \X (0..7) : b[sq[1]][sq[2]] * p > 0 })

\* C37: in standard play an accepted movePiece never removes a piece of the
\* side that moved: the mover's piece count is unchanged, the opponent's drops
\* by at most one, and only the origin and the target square change.
C37_AcceptedMoveKeepsTheMoversPieces ==
  [][(lastCall'.op = "movePiece" /\ lastCall'.ret)
       => LET from == lastCall'.from
              to == lastCall'.to
          IN  /\ CountSide(board', currentPlayer) = CountSide(board, currentPlayer)
              /\ CountSide(board', -currentPlayer) \in
                   { CountSide(board, -currentPlayer), CountSide(board, -currentPlayer) - 1 }
              /\ \A r \in 0..7, c \in 0..7 :
                   board'[r][c] # board[r][c] => Square(r, c) \in { from, to }]_vars

\* the white queen has taken the pawn on f7: white still has 16 pieces, black 15
C37_Witness ==
  /\ lastCall = Call("movePiece", Square(3, 7), Square(1, 5), TRUE, 0)
  /\ board[1][5] = QUEEN
  /\ CountSide(board, WHITE) = 16
  /\ CountSide(board, BLACK) = 15

\* ---------------------------------------------------------------------------
\* The squares read by the walk of isPieceInterrupting

\* steps after which a walk that has not ended is cut off
MaxWalk == 8

\* Chess::isPieceInterrupting: the squares whose code the loop reads, in order,
\* and whether the call returns. A read outside the board ends the call here,
\* and a walk of MaxWalk steps is still walking.
RECURSIVE isPieceInterruptingReadsFrom(_, _, _, _, _, _)
isPieceInterruptingReadsFrom(b, rowOffset, colOffset, current, target, reads) ==
  IF current = target THEN [reads |-> reads, returns |-> TRUE]
  ELSE IF Len(reads) >= MaxWalk THEN [reads |-> reads, returns |-> FALSE]
  ELSE IF current.row \notin 0..7 \/ current.col \notin 0..7
    THEN [reads |-> Append(reads, current), returns |-> FALSE]
  ELSE IF b[current.row][current.col] # 0
    THEN [reads |-> Append(reads, current), returns |-> TRUE]
  ELSE isPieceInterruptingReadsFrom(b, rowOffset, colOffset,
                                    Square(current.row + rowOffset, current.col + colOffset),
                                    target, Append(reads, current))

isPieceInterruptingReads(b, rowOffset, colOffset, old, target) ==
  isPieceInterruptingReadsFrom(b, rowOffset, colOffset,
                               Square(old.row + rowOffset, old.col + colOffset), target, << >>)

\* Chess::isLegalBishopMove: the walks it asks for
isLegalBishopMoveWalks(b, old, target) ==
  LET rowOffset == target.row - old.row
      colOffset == target.col - old.col
  IN  IF abs(rowOffset) - abs(colOffset) = 0
        THEN << isPieceInterruptingReads(b, rowOffset \div abs(rowOffset),
                                         colOffset \div abs(colOffset), old, target) >>
        ELSE << >>

\* Chess::isLegalRookMove: the walks it asks for
isLegalRookMoveWalks(b, old, target) ==
  LET rowOffset == target.row - old.row
      colOffset == target.col - old.col
  IN  IF (rowOffset = 0) # (colOffset = 0)
        THEN << isPieceInterruptingReads(b,
                                         IF rowOffset # 0 THEN rowOffset \div abs(rowOffset)
                                                          ELSE rowOffset,
                                         IF rowOffset # 0 THEN colOffset
                                         ELSE IF colOffset # 0 THEN colOffset \div abs(colOffset)
                                         ELSE colOffset,
                                         old, target) >>
        ELSE << >>

\* Chess::isLegalQueenMove: the rook rule is asked only when the bishop rule said no
isLegalQueenMoveWalks(b, old, target) ==
  isLegalBishopMoveWalks(b, old, target)
    \o (IF isLegalBishopMove(b, old, target) THEN << >> ELSE isLegalRookMoveWalks(b, old, target))

isLegalPawnMoveWalksTowardsOwnSide(b, old, target) ==
  LET rowOffset == target.row - old.row
      colOffset == target.col - old.col
      direction == b[old.row][old.col]
  IN  IF rowOffset * direction > 0 THEN << >>
      ELSE IF abs(colOffset) = 1 /\ rowOffset * direction = -1 THEN << >>
      ELSE IF colOffset = 0 /\ abs(rowOffset) = 2
        THEN IF (direction = WHITE /\ old.row # 6) \/ (direction = BLACK /\ old.row # 1)
               THEN << >>
               ELSE << isPieceInterruptingReads(b, direction, 0, old, target) >>
      ELSE << >>

\* Chess::isLegalPawnMove: the walk of the first-move jump
isLegalPawnMoveWalks(b, old, target) ==
  LET rowOffset == target.row - old.row
      colOffset == target.col - old.col
      direction == b[old.row][old.col]
  IN  IF rowOffset * direction > 0 THEN << >>
      ELSE IF abs(colOffset) = 1 /\ rowOffset * direction = -1 THEN << >>
      ELSE IF colOffset = 0 /\ abs(rowOffset) = 2
        THEN IF (direction = WHITE /\ old.row # 6) \/ (direction = BLACK /\ old.row # 1)
               THEN << >>
               ELSE << isPieceInterruptingReads(b, -direction, 0, old, target) >>
      ELSE << >>

\* the walks of the rule call recorded in call, on the board b
RuleWalks(b, call) ==
  CASE call.op = "isLegalPawnMove" -> isLegalPawnMoveWalks(b, call.from, call.to)
    [] call.op = "isLegalBishopMove" -> isLegalBishopMoveWalks(b, call.from, call.to)
    [] call.op = "isLegalRookMove" -> isLegalRookMoveWalks(b, call.from, call.to)
    [] call.op = "isLegalQueenMove" -> isLegalQueenMoveWalks(b, call.from, call.to)
    [] OTHER -> << >>

\* C38: every walk of isPieceInterrupting asked for by the bishop, rook, queen
\* and pawn first-move rules on distinct squares of the board returns after
\* reading at most 6 squares, all of them on the board and strictly between
\* origin and target.
C38_WalksStayOnTheBoardAndEnd ==
  LET walks == RuleWalks(board, lastCall)
  IN  \A i \in 1..Len(walks) :
        /\ walks[i].returns
        /\ Len(walks[i].reads) <= 6
        /\ \A k \in 1..Len(walks[i].reads) :
             /\ walks[i].reads[k].row \in 0..7
             /\ walks[i].reads[k].col \in 0..7
             /\ walks[i].reads[k] \in RefBetween(lastCall.from, lastCall.to)

\* the queen on a8 has been asked for h1: the walk read the six squares b7..g2
C38_Witness ==
  /\ lastCall = Call("isLegalQueenMove", Square(0, 0), Square(7, 7), TRUE, 0)
  /\ Len(RuleWalks(board, lastCall)) = 1
  /\ Len(RuleWalks(board, lastCall)[1].reads) = 6
  /\ RuleWalks(board, lastCall)[1].returns

\* ---------------------------------------------------------------------------
\* The main window: one game or puzzle object behind two pointers, the mode
\* buttons, the show-solution stepping and the single-shot timers of the
\* event loop. Time is counted in steps of 500 ms. The variables of the object
\* hold the object the window created last; what abandoned objects do is not
\* followed, and a run is followed up to the first state in which the window
\* holds two objects.

\* clicks on the Puzzle, Board and Next Puzzle buttons in one run
MaxModeClicks == 2
\* second clicks on a square of a puzzle in one run
MaxPuzzleClicks == 2
\* clicks on the Solution button in one run
MaxSolutionClicks == 1

\* QString::toLower on one character
toLower(c) == IF c >= 65 /\ c <= 90 THEN c + 32 ELSE c

\* QString::contains(pat, Qt::CaseInsensitive)
containsCaseInsensitive(text, pat) ==
  \E i \in 1..(Len(text) - Len(pat) + 1) :
    \A k \in 1..Len(pat) : toLower(text[i + k - 1]) = toLower(pat[k])

\* "enPassant"
EnPassantText == << 101, 110, 80, 97, 115, 115, 97, 110, 116 >>

\* MainWindow::isValidPuzzleLine
isValidPuzzleLine(line) ==
  LET parts == split(line, 44)
  IN  IF Len(parts) < 8 THEN FALSE
      ELSE LET fenFields == SelectSeq(split(parts[2], 32), LAMBDA f : f # << >>)
           IN  IF Len(fenFields) < 3 \/ fenFields[3] # << 45 >> THEN FALSE
               ELSE ~containsCaseInsensitive(parts[8], EnPassantText)

\* MainWindow::randomValidPuzzleLine: the lines it can return, among records 1 to 3
ValidRecordIds == { r \in 1..3 : isValidPuzzleLine(Records[r]) }

ObjectState(r, b, p, moves, step, elo, crash, moved) ==
  [rec |-> r, board |-> b, currentPlayer |-> p, solutionMoves |-> moves, currentStep |-> step,
   puzzleElo |-> elo, crashed |-> crash, applied |-> moved]

\* new ChessPuzzle(line) for record r: the states the new object can be in
\* after its constructor
NewChessPuzzle(r) ==
  LET parts == split(Records[r], 44)
  IN  IF tooFewParts(parts)
        THEN { ObjectState(r, EmptyBoard, WHITE, << >>, 0, 0, FALSE, << >>) }
        ELSE LET elo == stoi(parts[4])
                 fen == loadFEN(parts[2], EmptyBoard)
                 lm == loadMoves(parts[3])
             IN  IF ~elo.ok \/ fen.wild \/ ~lm.ok
                   THEN { ObjectState(r, EmptyBoard, WHITE, << >>, 0, 0, TRUE, << >>) }
                   ELSE { ObjectState(r, o.board, o.currentPlayer, lm.moves, o.currentStep,
                                      elo.val, o.crashed, o.moved)
                          : o \in makeOpponentMoveOutcomes(fen.board, fen.currentPlayer,
                                                           lm.moves, 0) }

\* the delays of the QTimer::singleShot calls, in steps of 500 ms
Delay(kind) ==
  CASE kind = "makeOpponentMove" -> 2
    [] kind = "makeGuess" -> 2
    [] kind = "playSolutionStep" -> 1
    [] kind = "enableControls" -> 5
    [] kind = "makeNewPuzzle" -> 6
    [] kind = "on_BoardButton_clicked" -> 6

\* a QTimer::singleShot: what it runs, the 500 ms steps left, the captured squares
Timer(kind, left, from, to) == [kind |-> kind, left |-> left, from |-> from, to |-> to]

\* a timer that has just been started and captures no squares
Started(kind) == Timer(kind, Delay(kind), NoSquare, NoSquare)

\* the show-solution stepping: running, started on the puzzle that is still
\* current, no user input since it started, and where it started
Stepping(on, same, quiet, step, moved) ==
  [on |-> on, same |-> same, quiet |-> quiet, step |-> step, moved |-> moved]

NoStepping == Stepping(FALSE, FALSE, FALSE, 0, 0)

\* MainWindow::MainWindow: both pointers null
WindowInit ==
  /\ window \in { [currentGame |-> FALSE, currentPuzzle |-> FALSE, timers |-> << >>,
                   controls |-> TRUE, nextPuzzle |-> enabled, solution |-> NoStepping,
                   clicks |-> 0, guesses |-> 0, solutions |-> 0] : enabled \in BOOLEAN }
  /\ rec = 0
  /\ board = EmptyBoard
  /\ currentPlayer = WHITE
  /\ solutionMoves = << >>
  /\ currentStep = 0
  /\ puzzleElo = 0
  /\ usedHint = FALSE
  /\ pendingReplies = 0
  /\ crashed = FALSE
  /\ events = << >>
  /\ lastCall = Call("none", NoSquare, NoSquare, FALSE, 0)
  /\ applied = << >>
  /\ beatCount = 0

TwoObjects == window.currentGame /\ window.currentPuzzle

\* the timers of w without those of the puzzle object that is being abandoned
WithoutReplies(timers) == SelectSeq(timers, LAMBDA t : t.kind # "makeOpponentMove")

\* timers without the one at position i
WithoutTimer(timers, i) == SubSeq(timers, 1, i - 1) \o SubSeq(timers, i + 1, Len(timers))

\* user input while the solution is being played is recorded
Disturbed(w) == [w EXCEPT !.solution.quiet = FALSE]

\* MainWindow::makeNewPuzzle on the window w (currentGame is left as it is)
makeNewPuzzle(w) ==
  \E r \in ValidRecordIds : \E o \in NewChessPuzzle(r) :
    /\ rec' = o.rec
    /\ board' = o.board
    /\ currentPlayer' = o.currentPlayer
    /\ solutionMoves' = o.solutionMoves
    /\ currentStep' = o.currentStep
    /\ puzzleElo' = o.puzzleElo
    /\ crashed' = o.crashed
    /\ applied' = o.applied
    /\ usedHint' = FALSE
    /\ pendingReplies' = 0
    /\ beatCount' = 0
    /\ events' = << >>
    /\ lastCall' = Call("makeNewPuzzle", NoSquare, NoSquare, TRUE, 0)
    /\ window' = [w EXCEPT !.currentPuzzle = TRUE,
                           !.nextPuzzle = FALSE,
                           !.timers = WithoutReplies(w.timers),
                           !.solution.same = FALSE]

\* MainWindow::on_PuzzleButton_clicked
on_PuzzleButton_clicked ==
  /\ ~crashed
  /\ ~TwoObjects
  /\ window.controls
  /\ window.clicks < MaxModeClicks
  /\ makeNewPuzzle(Disturbed([window EXCEPT !.currentGame = FALSE,
                                            !.clicks = window.clicks + 1]))

\* the Next Puzzle button, connected to MainWindow::makeNewPuzzle
on_nextPuzzleButton_clicked ==
  /\ ~crashed
  /\ ~TwoObjects
  /\ window.nextPuzzle
  /\ window.clicks < MaxModeClicks
  /\ makeNewPuzzle(Disturbed([window EXCEPT !.clicks = window.clicks + 1]))

\* MainWindow::on_BoardButton_clicked on the window w
on_BoardButton_clicked(w) ==
  /\ rec' = 0
  /\ board' = loadDefaultBoard
  /\ currentPlayer' = WHITE
  /\ solutionMoves' = << >>
  /\ currentStep' = 0
  /\ puzzleElo' = 0
  /\ usedHint' = FALSE
  /\ pendingReplies' = 0
  /\ applied' = << >>
  /\ beatCount' = 0
  /\ events' = << >>
  /\ lastCall' = Call("on_BoardButton_clicked", NoSquare, NoSquare, TRUE, 0)
  /\ window' = [w EXCEPT !.currentGame = TRUE,
                         !.currentPuzzle = FALSE,
                         !.timers = WithoutReplies(w.timers),
                         !.solution.same = FALSE]
  /\ UNCHANGED crashed

\* the Board button is clicked
BoardButtonClick ==
  /\ ~crashed
  /\ ~TwoObjects
  /\ window.controls
  /\ window.clicks < MaxModeClicks
  /\ on_BoardButton_clicked(Disturbed([window EXCEPT !.clicks = window.clicks + 1]))

\* the moves clicked on the standard board: e2-e4, f7-f6, d1-h5, f6-f5, h5-e8
WindowGameClicks ==
  { << Square(6, 4), Square(4, 4) >>, << Square(1, 5), Square(2, 5) >>,
    << Square(7, 3), Square(3, 7) >>, << Square(2, 5), Square(3, 5) >>,
    << Square(3, 7), Square(0, 4) >> }

\* the moves clicked on a puzzle: the scripted move at the cursor and the one after it
WindowPuzzleClicks ==
  { solutionMoves[i] : i \in { k \in { currentStep + 1, currentStep + 2 } : k <= Len(solutionMoves) } }

\* MainWindow::on_game_won, connected to won_game: evs are the signals of the call
on_game_won(w, evs) ==
  IF w.currentGame /\ CountEv(evs, "won_game") > 0
    THEN [w EXCEPT !.timers = Append(@, Started("on_BoardButton_clicked"))]
    ELSE w

\* MainWindow::on_beat_puzzle, connected to beatPuzzle: assignElo enables the
\* Next Puzzle button, then the next puzzle is scheduled
on_beat_puzzle(w, evs) ==
  IF HasBeat(evs)
    THEN [w EXCEPT !.nextPuzzle = TRUE,
                   !.timers = Append(@, Started("makeNewPuzzle"))]
    ELSE w

\* the QTimer::singleShot(1000, this, &ChessPuzzle::makeOpponentMove) of an
\* accepted guess that did not finish the puzzle
replyScheduled(w, accepted, evs) ==
  IF accepted /\ ~HasBeat(evs)
    THEN [w EXCEPT !.timers = Append(@, Started("makeOpponentMove"))]
    ELSE w

\* MainWindow::onSquareSelected, second click, on the standard board
SquareClickGame ==
  /\ ~crashed
  /\ ~TwoObjects
  /\ window.currentGame
  /\ \E mv \in WindowGameClicks :
       /\ movePiece(mv[1], mv[2])
       /\ window' = on_game_won(Disturbed(window), events')

\* MainWindow::onSquareSelected, second click, on a puzzle
SquareClickPuzzle ==
  /\ ~TwoObjects
  /\ window.currentPuzzle
  /\ window.guesses < MaxPuzzleClicks
  /\ \E mv \in WindowPuzzleClicks :
       /\ makeGuess(mv[1], mv[2])
       /\ window' = LET w == Disturbed([window EXCEPT !.guesses = @ + 1])
                    IN  on_beat_puzzle(on_game_won(replyScheduled(w, lastCall'.ret, events'),
                                                   events'),
                                       events')

\* MainWindow::playSolutionStep on the window w
playSolutionStep(w) ==
  /\ events' = << >>
  /\ UNCHANGED << rec, board, currentPlayer, solutionMoves, currentStep, puzzleElo, usedHint,
                  pendingReplies, crashed, applied, beatCount >>
  /\ IF ~w.currentPuzzle \/ isSolved
       THEN /\ lastCall' = Call("playSolutionStep", NoSquare, NoSquare, FALSE, currentStep)
            /\ window' = [w EXCEPT !.timers = Append(@, Started("enableControls")),
                                   !.solution = NoStepping]
       ELSE /\ lastCall' = Call("playSolutionStep", peekNextMove[1], peekNextMove[2], TRUE,
                                currentStep)
            /\ window' = [w EXCEPT !.timers = Append(@, Timer("makeGuess", Delay("makeGuess"),
                                                               peekNextMove[1],
                                                               peekNextMove[2]))]

\* MainWindow::on_solutionButton_clicked
on_solutionButton_clicked ==
  /\ ~crashed
  /\ ~TwoObjects
  /\ window.controls
  /\ window.solutions < MaxSolutionClicks
  /\ IF ~window.currentPuzzle
       THEN /\ lastCall' = Call("on_solutionButton_clicked", NoSquare, NoSquare, FALSE,
                                currentStep)
            /\ UNCHANGED << rec, board, currentPlayer, solutionMoves, currentStep, puzzleElo,
                            usedHint, pendingReplies, crashed, events, applied, beatCount,
                            window >>
       ELSE playSolutionStep([window EXCEPT !.controls = FALSE,
                                            !.solutions = @ + 1,
                                            !.solution = Stepping(TRUE, TRUE, TRUE, currentStep,
                                                                  Len(applied))])

\* the positions of the timers of the given kind that are due; of two timers
\* with the same delay the one started first expires first
Due(kind) ==
  { i \in 1..Len(window.timers) :
      /\ window.timers[i].kind = kind
      /\ window.timers[i].left = 0
      /\ \A j \in 1..(i - 1) : \/ window.timers[j].left # 0
                               \/ Delay(window.timers[j].kind) # Delay(kind) }

\* a reply timer of the current puzzle expires
ReplyTimer ==
  /\ ~TwoObjects
  /\ \E i \in Due("makeOpponentMove") :
       /\ makeOpponentMove
       /\ window' = [window EXCEPT !.timers = WithoutTimer(@, i)]

\* the timer of on_beat_puzzle expires: makeNewPuzzle
NewPuzzleTimer ==
  /\ ~crashed
  /\ ~TwoObjects
  /\ \E i \in Due("makeNewPuzzle") :
       makeNewPuzzle([window EXCEPT !.timers = WithoutTimer(@, i)])

\* the timer of on_game_won expires: on_BoardButton_clicked
BoardResetTimer ==
  /\ ~crashed
  /\ ~TwoObjects
  /\ \E i \in Due("on_BoardButton_clicked") :
       on_BoardButton_clicked([window EXCEPT !.timers = WithoutTimer(@, i)])

\* the timer of playSolutionStep expires: the lambda calls
\* currentPuzzle->makeGuess on the peeked squares, with no test of the pointer,
\* and schedules the next step
GuessTimer ==
  /\ ~crashed
  /\ ~TwoObjects
  /\ \E i \in Due("makeGuess") :
       LET t == window.timers[i]
           w == [window EXCEPT !.timers = WithoutTimer(@, i)]
       IN  IF ~window.currentPuzzle
             THEN /\ crashed' = TRUE
                  /\ events' = << >>
                  /\ lastCall' = Call("makeGuess", t.from, t.to, FALSE, currentStep)
                  /\ window' = w
                  /\ UNCHANGED << rec, board, currentPlayer, solutionMoves, currentStep,
                                  puzzleElo, usedHint, pendingReplies, applied, beatCount >>
             ELSE /\ makeGuess(t.from, t.to)
                  /\ window' =
                       LET w1 == on_beat_puzzle(on_game_won(replyScheduled(w, lastCall'.ret,
                                                                           events'),
                                                            events'),
                                                events')
                       IN  [w1 EXCEPT !.timers = Append(@, Started("playSolutionStep"))]

\* the 500 ms timer of the lambda expires: playSolutionStep
StepTimer ==
  /\ ~crashed
  /\ ~TwoObjects
  /\ \E i \in Due("playSolutionStep") :
       playSolutionStep([window EXCEPT !.timers = WithoutTimer(@, i)])

\* the 2500 ms timer of playSolutionStep expires: the buttons are enabled again
EnableTimer ==
  /\ ~crashed
  /\ ~TwoObjects
  /\ \E i \in Due("enableControls") :
       /\ window' = [window EXCEPT !.timers = WithoutTimer(@, i), !.controls = TRUE]
       /\ UNCHANGED << rec, board, currentPlayer, solutionMoves, currentStep, puzzleElo,
                       usedHint, pendingReplies, crashed, events, lastCall, applied, beatCount >>

\* 500 ms pass: no timer is due
Tick ==
  /\ ~crashed
  /\ ~TwoObjects
  /\ window.timers # << >>
  /\ \A i \in 1..Len(window.timers) : window.timers[i].left > 0
  /\ window' = [window EXCEPT !.timers = [i \in 1..Len(window.timers) |->
                                            [window.timers[i] EXCEPT !.left = @ - 1]]]
  /\ UNCHANGED << rec, board, currentPlayer, solutionMoves, currentStep, puzzleElo, usedHint,
                  pendingReplies, crashed, events, lastCall, applied, beatCount >>

WindowNext ==
  \/ on_PuzzleButton_clicked
  \/ on_nextPuzzleButton_clicked
  \/ BoardButtonClick
  \/ SquareClickGame
  \/ SquareClickPuzzle
  \/ on_solutionButton_clicked
  \/ ReplyTimer
  \/ NewPuzzleTimer
  \/ BoardResetTimer
  \/ GuessTimer
  \/ StepTimer
  \/ EnableTimer
  \/ Tick

WindowSpec == WindowInit /\ [][WindowNext]_vars

----------------------------------------------------------------------------
(* the claims about the main window *)

\* C33: in every reachable state of the main window at most one of currentGame
\* and currentPuzzle is non-null, whatever the order of the clicks on the
\* Puzzle and Board buttons and of the delayed callbacks.
C33_AtMostOneObjectIsCurrent == ~(window.currentGame /\ window.currentPuzzle)

\* C34: the show-solution stepping, started on an unsolved puzzle and left
\* without user input, never ends the run, stays on the puzzle it started on,
\* and stops only when that puzzle is solved with the cursor at the end of the
\* move list, the moves that were left applied once each in order, and no
\* further guess scheduled.
C34_SolutionSteppingSolvesThePuzzle ==
  [][ (window.solution.on /\ window.solution.quiet /\ window'.solution.quiet) =>
        /\ ~crashed'
        /\ window'.solution.on => window'.solution.same
        /\ ~window'.solution.on =>
             /\ window.solution.same
             /\ isSolved'
             /\ currentStep' = Len(solutionMoves')
             /\ SubSeq(applied', window.solution.moved + 1, Len(applied'))
                  = SubSeq(solutionMoves', window.solution.step + 1, Len(solutionMoves'))
             /\ \A i \in 1..Len(window'.timers) : window'.timers[i].kind # "makeGuess" ]_vars

====
